---- MODULE Spec2Model ----
(***************************************************************************)
(* A model of the research orchestrator of agenticSearchEngine:            *)
(*   - the entity resolver and the bitemporal fact store                   *)
(*     (server/src/services/entityResolver.ts, factsStore.ts and the       *)
(*     schema of migrations/003_create_entities_and_facts.sql);            *)
(*   - the agent loop of server/src/services/researchAgent.ts with its     *)
(*     tool registry, cache, budgets and session history (memory.ts).      *)
(* Strings that the code transforms (names, types, ids) are sequences of   *)
(* one-character strings; timestamps are naturals.                         *)
(***************************************************************************)
EXTENDS Integers, Sequences, FiniteSets, TLC

VARIABLES
  cfg,        \* process.env as read by the server, and the scenario family
  frames,     \* the runAgent calls in progress, innermost last
  histories,  \* memory.ts histories: session id -> messages
  nextCallId, \* the next tool-call id the model API hands out
  lastCall,   \* the tool call answered last
  finished,   \* the run that returned last
  runs,       \* requests served so far
  entities,   \* table entities: set of rows [id, type, canonical_name]
  facts,      \* table facts: set of rows
  nextId,     \* the BIGSERIAL sequence behind facts.id
  clock,      \* wall clock read by `new Date()`
  calls,      \* the store_fact calls in flight: process -> record
  lastRead,   \* what the latest get_fact returned, and for which pair
  everCurrent, \* pairs (entity_id, name) that have had a current row
  user_memory, \* table user_memory: set of rows [id, username, text, created_at]
  memoryCalls, \* the addMemory calls: caller -> record
  resolutions, \* the latest two resolveEntity calls of a caller, oldest first
  trusted,     \* the setTrustedFact call that came back last
  finder,      \* the latest_finder call: its locals, and what it returned
  classified   \* the classifyIntent call that came back last

dbVars == <<entities, facts, nextId, clock, calls, lastRead, everCurrent>>

agentVars == <<cfg, frames, histories, nextCallId, lastCall, finished, runs>>

memVars == <<user_memory, memoryCalls>>

\* what the fact store and the agent leave alone
sideVars == <<user_memory, memoryCalls, resolutions, trusted, finder, classified>>

vars == <<cfg, frames, histories, nextCallId, lastCall, finished, runs,
          entities, facts, nextId, clock, calls, lastRead, everCurrent,
          user_memory, memoryCalls, resolutions, trusted, finder, classified>>

----------------------------------------------------------------------------
(* Bounds of the model *)

MaxRows == 4      \* ids the facts.id sequence hands out in one behaviour
MaxTime == 2      \* wall clock readings 1..MaxTime

Procs == {"w1", "w2"}   \* two requests writing facts at once
Null == -1        \* SQL NULL in a timestamp column / a missing fact
NoDate == 0       \* observedAt not supplied

----------------------------------------------------------------------------
(* Strings *)

\* a string is a sequence of one-character strings

Upper == <<"A", "B", "C", "D", "E", "F", "G", "H", "I", "J", "K", "L", "M",
          "N", "O", "P", "Q", "R", "S", "T", "U", "V", "W", "X", "Y", "Z">>
LowerOf == <<"a", "b", "c", "d", "e", "f", "g", "h", "i", "j", "k", "l", "m",
            "n", "o", "p", "q", "r", "s", "t", "u", "v", "w", "x", "y", "z">>

RECURSIVE IndexOf(_, _, _)
IndexOf(ch, seq, i) ==
  IF i > Len(seq) THEN 0
  ELSE IF seq[i] = ch THEN i ELSE IndexOf(ch, seq, i + 1)

\* String.prototype.toLowerCase, one character
UpperCase == {Upper[i] : i \in 1..Len(Upper)}

LowerChar(ch) == IF ch \in UpperCase THEN LowerOf[IndexOf(ch, Upper, 1)] ELSE ch

toLowerCase(s) == [i \in 1..Len(s) |-> LowerChar(s[i])]

IsSpace(ch) == ch = " "

RECURSIVE TrimLeft(_)
TrimLeft(s) ==
  IF s # <<>> /\ IsSpace(Head(s)) THEN TrimLeft(Tail(s)) ELSE s

RECURSIVE TrimRight(_)
TrimRight(s) ==
  IF s # <<>> /\ IsSpace(s[Len(s)]) THEN TrimRight(SubSeq(s, 1, Len(s) - 1)) ELSE s

\* String.prototype.trim
trim(s) == TrimRight(TrimLeft(s))

IsAlnum(ch) ==
  ch \in {"a", "b", "c", "d", "e", "f", "g", "h", "i", "j", "k", "l", "m", "n", "o", "p", "q",
          "r", "s", "t", "u", "v", "w", "x", "y", "z",
          "0", "1", "2", "3", "4", "5", "6", "7", "8", "9"}

\* .replace(/[^a-z0-9]+/g, '_'): every maximal run of other characters -> "_"
RECURSIVE CollapseRuns(_, _)
CollapseRuns(s, inRun) ==
  IF s = <<>> THEN <<>>
  ELSE IF IsAlnum(Head(s)) THEN <<Head(s)>> \o CollapseRuns(Tail(s), FALSE)
  ELSE IF inRun THEN CollapseRuns(Tail(s), TRUE)
  ELSE <<"_">> \o CollapseRuns(Tail(s), TRUE)

RECURSIVE StripLeft(_)
StripLeft(s) == IF s # <<>> /\ Head(s) = "_" THEN StripLeft(Tail(s)) ELSE s

RECURSIVE StripRight(_)
StripRight(s) ==
  IF s # <<>> /\ s[Len(s)] = "_" THEN StripRight(SubSeq(s, 1, Len(s) - 1)) ELSE s

\* variant: the id keeps the case of the name
sanitized_keepCase(name) == StripRight(StripLeft(CollapseRuns(name, FALSE)))

\* .toLowerCase().replace(/[^a-z0-9]+/g, '_').replace(/^_+|_+$/g, '')
sanitized(name) == StripRight(StripLeft(CollapseRuns(toLowerCase(name), FALSE)))

slice3(s) == SubSeq(s, 1, IF Len(s) < 3 THEN Len(s) ELSE 3)

prefix(normalizedType) ==
  IF normalizedType = <<"c", "o", "m", "p", "a", "n", "y">> THEN <<"c", "m", "p">>
  ELSE IF normalizedType = <<"p", "e", "r", "s", "o", "n">> THEN <<"p", "e", "r">>
  ELSE toLowerCase(slice3(normalizedType))

normalizedName(name) == trim(name)
normalizedType(type) == toLowerCase(trim(type))

candidateId(name, type) ==
  prefix(normalizedType(type)) \o <<"_">> \o sanitized(normalizedName(name))

----------------------------------------------------------------------------
(* Inputs of the fact-store specification *)

Company == <<"c", "o", "m", "p", "a", "n", "y">>
Person == <<"p", "e", "r", "s", "o", "n">>

Acme == [name |-> <<"A", "c", "m", "e">>, type |-> Company]
Bob == [name |-> <<"B", "o", "b">>, type |-> Person]

FactNames == {"ceo_name"}

\* the (subject, name) pairs the requests write
Targets == {<<Acme, "ceo_name">>, <<Bob, "ceo_name">>}

Undefined == "undefined"     \* a variable without a value key
Values == {"42", Undefined}

ObservedAts == {NoDate, 1}

----------------------------------------------------------------------------
(* Entity resolver: the three queries of resolveEntity *)

\* SELECT id FROM entities WHERE id = $1
EntityById(rows, id) == {e \in rows : e.id = id}

\* SELECT id FROM entities WHERE LOWER(canonical_name) = LOWER($1) AND type = $2
EntityByName(rows, name, type) ==
  {e \in rows : toLowerCase(e.canonical_name) = toLowerCase(name) /\ e.type = type}

\* variant: the INSERT leaves no row behind
InsertEntity_noRow(rows, id, type, name) == rows

\* INSERT INTO entities ... ON CONFLICT (id) DO NOTHING
InsertEntity(rows, id, type, name) ==
  IF EntityById(rows, id) # {} THEN rows
  ELSE rows \cup {[id |-> id, type |-> type, canonical_name |-> name]}

----------------------------------------------------------------------------
(* Fact store: the statements of storeFact and getFact *)

CurrentRows(rows, e, n) ==
  {r \in rows : r.entity_id = e /\ r.name = n /\ r.valid_to = Null}

\* variant: the supplied observedAt is ignored
NowOf_wallOnly(observedAt, wall) == wall

\* const now = observedAt || new Date()
NowOf(observedAt, wall) == IF observedAt # NoDate THEN observedAt ELSE wall

\* variant: the UPDATE without "AND valid_to IS NULL"
UpdateClose_anyRow(rows, t, e, n) ==
  {IF r.entity_id = e /\ r.name = n THEN [r EXCEPT !.valid_to = t] ELSE r : r \in rows}

\* UPDATE facts SET valid_to = $1
\*  WHERE entity_id = $2 AND name = $3 AND valid_to IS NULL
UpdateClose(rows, t, e, n) ==
  {IF r \in CurrentRows(rows, e, n) THEN [r EXCEPT !.valid_to = t] ELSE r : r \in rows}

\* JSON.stringify(variable.value): undefined when there is no value,
\* which node-postgres sends as SQL NULL
JsonStringify(v) == IF v = Undefined THEN "NULL" ELSE v

\* value JSONB NOT NULL
NotNullOk(jsonText) == jsonText # "NULL"

\* variant: the schema without the unique partial index
UniqueIndexOk_noIndex(rows, e, n) == TRUE

\* CREATE UNIQUE INDEX facts_one_current_per_name
\*   ON facts(entity_id, name) WHERE valid_to IS NULL
UniqueIndexOk(rows, e, n) == CurrentRows(rows, e, n) = {}

\* the row INSERT ... RETURNING builds; pg parses the jsonb back (the
\* variables of the fact-store requests carry confidence 0.5 and no sources)
NewRow(id, e, n, v, t) ==
  [id |-> id, entity_id |-> e, name |-> n, value |-> JsonStringify(v),
   confidence |-> 50, sources |-> <<>>,
   observed_at |-> t, valid_from |-> t, valid_to |-> Null]

\* SELECT ... WHERE entity_id = $1 AND name = $2 AND valid_to IS NULL LIMIT 1
getFact(rows, e, n) ==
  IF CurrentRows(rows, e, n) = {} THEN {}
  ELSE {CHOOSE r \in CurrentRows(rows, e, n) : TRUE}

----------------------------------------------------------------------------
(* The fact-store processes: storeFact step by step, one step per query *)

IdleCall ==
  [pc |-> "idle", subject |-> [name |-> <<>>, type |-> <<>>], fname |-> "",
   value |-> "", observedAt |-> NoDate, entityId |-> <<>>, now |-> NoDate,
   prev |-> {}, solo |-> TRUE]

\* what resolveEntity(name, type) returns against the table `rows`
WouldResolve(rows, name, type) ==
  LET nn == normalizedName(name)
      nt == normalizedType(type)
      cid == candidateId(name, type)
  IN IF EntityById(rows, cid) # {} THEN cid
     ELSE IF EntityByName(rows, nn, nt) # {}
          THEN (CHOOSE e \in EntityByName(rows, nn, nt) : TRUE).id
          ELSE cid

Resolving == {"byId", "byName", "create"}

\* the entity a call in flight writes to
TargetOf(c) ==
  IF c.pc \in Resolving
  THEN WouldResolve(entities, c.subject.name, c.subject.type)
  ELSE c.entityId

\* bookkeeping: a write by process p to (e, n) is "another writer" for every
\* other call in flight for the same pair
NoteWrite(cs, p, e, n) ==
  [q \in Procs |->
     IF q # p /\ cs[q].pc # "idle" /\ cs[q].fname = n /\ TargetOf(cs[q]) = e
     THEN [cs[q] EXCEPT !.solo = FALSE] ELSE cs[q]]

InFlight == Cardinality({p \in Procs : calls[p].pc \notin {"idle", "done", "failed"}})

\* storeFact(variable, observedAt?) is called
Begin(p) ==
  /\ calls[p].pc = "idle"
  /\ nextId + InFlight <= MaxRows
  /\ \E tg \in Targets, v \in Values, o \in ObservedAts :
       calls' = [calls EXCEPT ![p] =
                   [IdleCall EXCEPT !.pc = "byId", !.subject = tg[1], !.fname = tg[2],
                                    !.value = v, !.observedAt = o]]
  /\ UNCHANGED <<entities, facts, nextId, clock, lastRead, everCurrent>>

\* resolveEntity returned id: line 26 reads the clock, then the UPDATE is sent
Resolved(p, id) ==
  calls' = [calls EXCEPT ![p].pc = "update", ![p].entityId = id,
                         ![p].now = NowOf(calls[p].observedAt, clock)]

ResolveById(p) ==
  /\ calls[p].pc = "byId"
  /\ LET cid == candidateId(calls[p].subject.name, calls[p].subject.type)
     IN IF EntityById(entities, cid) # {}
        THEN Resolved(p, cid)
        ELSE calls' = [calls EXCEPT ![p].pc = "byName"]
  /\ UNCHANGED <<entities, facts, nextId, clock, lastRead, everCurrent>>

ResolveByName(p) ==
  /\ calls[p].pc = "byName"
  /\ LET found == EntityByName(entities, normalizedName(calls[p].subject.name),
                               normalizedType(calls[p].subject.type))
     IN IF found # {}
        THEN \E e \in found : Resolved(p, e.id)
        ELSE calls' = [calls EXCEPT ![p].pc = "create"]
  /\ UNCHANGED <<entities, facts, nextId, clock, lastRead, everCurrent>>

CreateEntity(p) ==
  /\ calls[p].pc = "create"
  /\ LET cid == candidateId(calls[p].subject.name, calls[p].subject.type)
     IN /\ entities' = InsertEntity(entities, cid,
                                    normalizedType(calls[p].subject.type),
                                    normalizedName(calls[p].subject.name))
        /\ Resolved(p, cid)
  /\ UNCHANGED <<facts, nextId, clock, lastRead, everCurrent>>

\* the UPDATE of lines 28-33, its own statement on the pool
Update(p) ==
  /\ calls[p].pc = "update"
  /\ LET c == calls[p]
         closed == CurrentRows(facts, c.entityId, c.fname)
     IN /\ facts' = UpdateClose(facts, c.now, c.entityId, c.fname)
        /\ calls' = [NoteWrite(calls, p, c.entityId, c.fname) EXCEPT
                       ![p] = [c EXCEPT !.pc = "insert",
                                        !.prev = {r.id : r \in closed}]]
  /\ UNCHANGED <<entities, nextId, clock, lastRead, everCurrent>>

\* the INSERT of lines 35-51: it fails on a NULL value and on the unique index
Insert(p) ==
  /\ calls[p].pc = "insert"
  /\ LET c == calls[p]
     IN IF NotNullOk(JsonStringify(c.value)) /\ UniqueIndexOk(facts, c.entityId, c.fname)
        THEN /\ facts' = facts \cup {NewRow(nextId, c.entityId, c.fname, c.value, c.now)}
             /\ everCurrent' = everCurrent \cup {<<c.entityId, c.fname>>}
             /\ calls' = [NoteWrite(calls, p, c.entityId, c.fname) EXCEPT
                            ![p] = [c EXCEPT !.pc = "done"]]
        ELSE /\ calls' = [calls EXCEPT ![p].pc = "failed"]
             /\ UNCHANGED <<facts, everCurrent>>
  /\ nextId' = nextId + 1
  /\ UNCHANGED <<entities, clock, lastRead>>

\* storeFact returned the row, or threw
Return(p) ==
  /\ calls[p].pc \in {"done", "failed"}
  /\ calls' = [calls EXCEPT ![p] = IdleCall]
  /\ UNCHANGED <<entities, facts, nextId, clock, lastRead, everCurrent>>

\* a get_fact by any other request
GetFactCall ==
  /\ \E e \in entities, n \in FactNames :
       lastRead' = [entity_id |-> e.id, name |-> n,
                    found |-> getFact(facts, e.id, n) # {},
                    hadCurrent |-> <<e.id, n>> \in everCurrent]
  /\ UNCHANGED <<entities, facts, nextId, clock, calls, everCurrent>>

Tick ==
  /\ clock < MaxTime
  /\ clock' = clock + 1
  /\ UNCHANGED <<entities, facts, nextId, calls, lastRead, everCurrent>>

\* the tables after earlier requests stored a fact of Acme twice: one
\* superseded row and one current row; Bob is not yet an entity
AcmeId == candidateId(Acme.name, Acme.type)

SeedEntities == {[id |-> AcmeId, type |-> Company, canonical_name |-> Acme.name]}

SeedFacts == {
  [NewRow(1, AcmeId, "ceo_name", "41", 1) EXCEPT !.valid_to = 2],
  [NewRow(2, AcmeId, "ceo_name", "42", 2) EXCEPT !.confidence = 80] }

DbSeeded ==
  /\ entities = SeedEntities
  /\ facts = SeedFacts
  /\ nextId = 3
  /\ clock = 1
  /\ calls = [p \in Procs |-> IdleCall]
  /\ lastRead = [entity_id |-> <<>>, name |-> "", found |-> FALSE, hadCurrent |-> FALSE]
  /\ everCurrent = {<<r.entity_id, r.name>> : r \in facts}

DbNext ==
  /\ \/ \E p \in Procs : Begin(p)
     \/ \E p \in Procs : ResolveById(p)
     \/ \E p \in Procs : ResolveByName(p)
     \/ \E p \in Procs : CreateEntity(p)
     \/ \E p \in Procs : Update(p)
     \/ \E p \in Procs : Insert(p)
     \/ \E p \in Procs : Return(p)
     \/ GetFactCall
     \/ Tick
  /\ UNCHANGED agentVars
  /\ UNCHANGED sideVars

----------------------------------------------------------------------------
(* User memory: addMemory *)

MemoryCallers == {"m1", "m2"}
Usernames == {"alice", "bob"}
MemoryTexts == {"prefers metric units", "works at Acme"}

IdleMemoryCall ==
  [pc |-> "idle", username |-> "", text |-> "", now |-> NoDate, order |-> 0, id |-> 0]

\* a row an earlier request left
SeedMemory == [id |-> 1, username |-> "alice", text |-> "works at Acme", created_at |-> 1]

\* the rows the constraint user_memory_username_text_unique sets against (u, t)
MemoryConflict(rows, u, t) == {r \in rows : r.username = u /\ r.text = t}

\* variant: a plain INSERT, which the unique constraint rejects
addMemory_insertOnly(rows, id, u, t, now) ==
  IF MemoryConflict(rows, u, t) = {}
  THEN [rows |-> rows \cup {[id |-> id, username |-> u, text |-> t, created_at |-> now]},
        failed |-> FALSE, id |-> id]
  ELSE [rows |-> rows, failed |-> TRUE, id |-> 0]

\* INSERT ... ON CONFLICT (username, text) DO UPDATE SET created_at = NOW()
\* RETURNING id, ...: the table afterwards and the id returned
addMemory(rows, id, u, t, now) ==
  LET hit == MemoryConflict(rows, u, t)
  IN IF hit = {}
     THEN [rows |-> rows \cup {[id |-> id, username |-> u, text |-> t, created_at |-> now]},
           failed |-> FALSE, id |-> id]
     ELSE [rows |-> {IF r \in hit THEN [r EXCEPT !.created_at = now] ELSE r : r \in rows},
           failed |-> FALSE, id |-> (CHOOSE r \in hit : TRUE).id]

\* statements of addMemory executed so far
MemoryExecuted == Cardinality({c \in MemoryCallers : memoryCalls[c].pc \in {"done", "failed"}})

\* addMemory(username, text) sends its statement; NOW() is the time at which
\* the statement's transaction starts
AddMemoryCalled(c) ==
  /\ memoryCalls[c].pc = "idle"
  /\ \E u \in Usernames, t \in MemoryTexts :
       memoryCalls' = [memoryCalls EXCEPT ![c] =
                         [IdleMemoryCall EXCEPT !.pc = "sent", !.username = u, !.text = t,
                                                !.now = clock]]
  /\ UNCHANGED <<user_memory, clock>>

\* the statement takes effect; gen_random_uuid() gives a new row a fresh id
AddMemoryExecutes(c) ==
  /\ memoryCalls[c].pc = "sent"
  /\ LET m == memoryCalls[c]
         out == addMemory(user_memory, 2 + MemoryExecuted, m.username, m.text, m.now)
     IN /\ user_memory' = out.rows
        /\ memoryCalls' = [memoryCalls EXCEPT ![c] =
                             [m EXCEPT !.pc = IF out.failed THEN "failed" ELSE "done",
                                       !.order = 1 + MemoryExecuted, !.id = out.id]]
  /\ UNCHANGED clock

MemoryTick ==
  /\ clock < MaxTime
  /\ clock' = clock + 1
  /\ UNCHANGED memVars

\* no setTrustedFact call yet
NoCorrection ==
  [entity |-> <<>>, field |-> "", threw |-> FALSE, status |-> 0, hadFact |-> FALSE,
   before |-> [null |-> TRUE, one |-> FALSE, bits |-> <<>>],
   after |-> [null |-> TRUE, one |-> FALSE, bits |-> <<>>], written |-> 0]

\* no latest_finder call yet
IdleFinder ==
  [pc |-> "idle", iterations |-> 0, currentLatest |-> NoDate, allSeen |-> {},
   refinedQueries |-> 0, rounds |-> <<>>, latest_date |-> NoDate, sources |-> {},
   corroboration_ok |-> FALSE, total_collected |-> 0]

\* no classifyIntent call yet
NoIntent == [query |-> <<>>, reply |-> "", fallback |-> FALSE, intent |-> "", target |-> ""]

MemoryIdle ==
  /\ user_memory = {}
  /\ memoryCalls = [c \in MemoryCallers |-> IdleMemoryCall]
  /\ resolutions = <<>>
  /\ trusted = NoCorrection
  /\ finder = IdleFinder
  /\ classified = NoIntent

----------------------------------------------------------------------------
(* The agent loop: budgets *)

\* Number(process.env.X): NaN, or a number kept here in halves (v2 = 2 * value)
NaN == [nan |-> TRUE, v2 |-> 0]
Num2(k) == [nan |-> FALSE, v2 |-> k]

Min(a, b) == IF a < b THEN a ELSE b

\* INTENSITY_CONFIG, in halves
BaseSteps2(intensity) ==
  CASE intensity = "low" -> 2 * 3 [] intensity = "medium" -> 2 * 6 [] OTHER -> 2 * 10

BaseWeb2(intensity) ==
  CASE intensity = "low" -> 2 * 2 [] intensity = "medium" -> 2 * 4 [] OTHER -> 2 * 8

\* Number.isFinite(env) && env > 0 ? Math.min(base, env) : base
Capped2(base2, env) == IF ~env.nan /\ env.v2 > 0 THEN Min(base2, env.v2) ELSE base2

\* getIntensityCaps
getIntensityCaps(intensity, envSteps, envWeb) ==
  [maxIterations2 |-> Capped2(BaseSteps2(intensity), envSteps),
   maxWebSearches2 |-> Capped2(BaseWeb2(intensity), envWeb)]

----------------------------------------------------------------------------
(* The agent loop: tool calls and their fingerprints *)

\* the argument keys the reasoner sends, in the order Array.prototype.sort
\* puts them (UTF-16 code units)
KeysSorted == <<"days", "depth", "includeContent", "input", "num", "query">>

KeyRank(k) == IndexOf(k, KeysSorted, 1)

\* insert the pair kv into the key-sorted sequence s
RECURSIVE InsertSorted(_, _)
InsertSorted(kv, s) ==
  IF s = <<>> THEN <<kv>>
  ELSE IF KeyRank(kv[1]) < KeyRank(Head(s)[1]) THEN <<kv>> \o s
  ELSE <<Head(s)>> \o InsertSorted(kv, Tail(s))

\* Object.keys(args).sort(), then the object rebuilt in that key order
RECURSIVE sortedObj(_)
sortedObj(args) ==
  IF args = <<>> THEN <<>> ELSE InsertSorted(Head(args), sortedObj(Tail(args)))

\* variant: the fingerprint keeps the keys in the order the reasoner sent them
Fingerprint_unsorted(name, args) == [name |-> name, json |-> args]

\* fp = `${name}:${JSON.stringify(sortedObj)}`
Fingerprint(name, args) == [name |-> name, json |-> sortedObj(args)]

\* a call up to the order of its keys: the tool name and the set of its
\* key/value pairs
CallKey(name, args) == [name |-> name, kv |-> {args[i] : i \in 1..Len(args)}]

HasKey(args, k) == \E i \in 1..Len(args) : args[i][1] = k
ValueOf(args, k) == args[CHOOSE i \in 1..Len(args) : args[i][1] = k][2]
KeysOf(args) == {args[i][1] : i \in 1..Len(args)}

\* argument values: strings (with their length) and numbers
Val(kind, text, len) == [kind |-> kind, text |-> text, len |-> len]
QAcme == Val("string", "acme ceo", 8)
QFounder == Val("string", "acme founder", 12)
QEmpty == Val("string", "", 0)
QPlaceholder == Val("string", "query", 5)
QOneToken == Val("string", "acme", 4)
QOffTopic == Val("string", "top story", 9)
N3 == Val("number", "3", 0)
InClaims == Val("string", "{\"claims\":[\"a\",\"b\"]}", 20)
InFounded == Val("string", "{\"entity\":\"Acme\",\"variable_name\":\"founded_date\"}", 47)
InCeo == Val("string", "{\"entity\":\"acme\",\"variable_name\":\"ceo_name\"}", 43)
InNobody == Val("string", "{\"entity\":\"Zed\",\"variable_name\":\"ceo_name\"}", 42)

\* WebSearchTool.schema (strict)
WebSearchSchemaOk(args) ==
  /\ KeysOf(args) \subseteq {"query", "num", "includeContent", "days", "depth"}
  /\ HasKey(args, "query")
  /\ ValueOf(args, "query").kind = "string" /\ ValueOf(args, "query").len >= 2
  /\ HasKey(args, "num") => ValueOf(args, "num").kind = "number"

\* LatestFinderTool.schema (strict)
LatestFinderSchemaOk(args) ==
  /\ KeysOf(args) = {"query"}
  /\ ValueOf(args, "query").kind = "string" /\ ValueOf(args, "query").len >= 1

\* DynamicTool: z.object({ input: z.string().optional() }), then obj.input
DynamicToolSchemaOk(args) ==
  HasKey(args, "input") => ValueOf(args, "input").kind = "string"

\* the string func(input) receives; "undefined" when there is no input key
DynamicToolInput(args) ==
  IF HasKey(args, "input") THEN ValueOf(args, "input").text ELSE Undefined

\* JSON.parse(input) in knowledge_query: entity and variable_name
\* (a missing or non-string field is "")
KqParsed(input) ==
  CASE input = InFounded.text -> [entity |-> <<"A", "c", "m", "e">>, variable_name |-> "founded_date"]
    [] input = InCeo.text -> [entity |-> <<"a", "c", "m", "e">>, variable_name |-> "ceo_name"]
    [] input = InNobody.text -> [entity |-> <<"Z", "e", "d">>, variable_name |-> "ceo_name"]
    [] OTHER -> [entity |-> <<>>, variable_name |-> ""]

\* JSON.parse(input) in evaluate_plausibility: the number of usable claims
EpClaims(input) == IF input = InClaims.text THEN 2 ELSE 0

\* const proposed = typeof argsObj?.query === 'string' ? String(argsObj.query) : ''
proposed(args) ==
  IF HasKey(args, "query") /\ ValueOf(args, "query").kind = "string"
  THEN ValueOf(args, "query") ELSE QEmpty

\* tool-result payloads (the text of the ToolMessage)
LimitReached == "{\"error\":\"Web search limit reached\",\"limit\":N}"
DuplicateBlocked == "{\"error\":\"Duplicate tool call blocked\",...}"
UnknownTool == "{\"error\":\"Unknown tool: ...\"}"
SchemaError == "SCHEMA_VALIDATION_ERROR: ..."
ExecError == "TOOL_EXECUTION_ERROR: ..."

\* what a tool that runs can return
WebSearchResults == {"[]", "[{url:a}]"}
PlausibilityResults == {"", "{\"evaluations\":[...]}"}
NoClaims == "{\"error\":\"No claims provided\",...}"
EntityRequired == "{\"error\":\"Entity name is required\",...}"
EntityUnresolved == "{\"code\":\"ENTITY_UNRESOLVED\",\"error\":\"Could not resolve entity\",...}"
NoFactFound == "{...,\"error\":\"No fact found after web search\"}"
FactPayload(row) == "{...,\"value\":" \o row.value \o ",...}"

\* JSON.parse(result) yields an object with a truthy .error
HasErrorField(result) ==
  result \in {LimitReached, DuplicateBlocked, UnknownTool, NoClaims, EntityRequired,
              EntityUnresolved, NoFactFound, "{\"error\":\"Missing TAVILY_API_KEY\"}"}

\* isFailedOrEmptyResult(toolName, result)
isFailedOrEmptyResult(toolName, result) ==
  \/ result \in {SchemaError, ExecError}
  \/ HasErrorField(result)
  \/ toolName \in {"web_search", "latest_finder"} /\ result = "[]"
  \/ result = ""

\* toolResultCache as a set of [fp, result] entries, one per fingerprint
CacheGet(cache, fp) == {e.result : e \in {x \in cache : x.fp = fp}}

\* variant: the result of an executed call is not cached
CacheSet_dropped(cache, fp, result) == cache

\* toolResultCache.set(fp, result)
CacheSet(cache, fp, result) ==
  {e \in cache : e.fp # fp} \cup {[fp |-> fp, result |-> result]}

----------------------------------------------------------------------------
(* Short-term memory: one message list per session *)

DefaultSession == "default_research"
Sessions == {"s1", DefaultSession}

\* messages: an assistant message lists the ids of its tool calls, a tool
\* message carries the id it answers (0 where the field is absent)
AiMessage(ids, content) ==
  [type |-> "ai", tool_calls |-> ids, tool_call_id |-> 0, content |-> content]
HumanMessage(content) ==
  [type |-> "human", tool_calls |-> <<>>, tool_call_id |-> 0, content |-> content]
\* variant: the tool message does not carry the id of its call
ToolMessage_noId(id, content) ==
  [type |-> "tool", content |-> content, tool_calls |-> <<>>, tool_call_id |-> 0]

ToolMessage(id, content) ==
  [type |-> "tool", tool_calls |-> <<>>, tool_call_id |-> id, content |-> content]

\* the user messages runAgent writes
RECURSIVE JoinIssues(_)
JoinIssues(issues) ==
  IF issues = <<>> THEN "" ELSE "\n- " \o Head(issues) \o JoinIssues(Tail(issues))
VerificationNudge(issues) ==
  "Verification gate not satisfied:" \o JoinIssues(issues) \o "\nIf needed, run another ..."
Intro == "User query: ... Schema to follow for FINAL answer ..."
PlausibilityNudge == "The evaluate_plausibility tool requires JSON like ..."
OutcomesNudge == "tool_outcomes: ..."
StopNudge == "Now stop using tools and produce ONLY the final JSON ..."

\* messages.slice(-n) for n >= 0: slice(-0) is slice(0), the whole array
SliceLast(messages, n) ==
  IF Len(messages) <= n \/ n = 0 THEN messages
  ELSE SubSeq(messages, Len(messages) - n + 1, Len(messages))

CarriesCall(m, id) == \E k \in 1..Len(m.tool_calls) : m.tool_calls[k] = id

\* the backward scan of trimHistory from index i (1-based) for the
\* assistant message that issued tool call id; 0 when there is none
RECURSIVE ScanBack(_, _, _)
ScanBack(messages, i, id) ==
  IF i < 1 THEN 0
  ELSE IF CarriesCall(messages[i], id) THEN i
  ELSE ScanBack(messages, i - 1, id)

\* variant: the first version of trimHistory, which only keeps the tail
trimHistory_tailOnly(messages, window) == SliceLast(messages, window)

\* trimHistory: keep the last MAX_MESSAGES messages; when the first kept one
\* is a tool result, put the assistant message that issued its call in front
trimHistory(messages, window) ==
  IF Len(messages) <= window THEN messages
  ELSE LET keep == SliceLast(messages, window)
           toolCallId == keep[1].tool_call_id
           j == ScanBack(messages, Len(messages) - window, toolCallId)
       IN IF toolCallId # 0 /\ j # 0 THEN <<messages[j]>> \o keep ELSE keep

----------------------------------------------------------------------------
(* Final answers: variables, sources and the citation gate *)

\* the source urls of the model and what `new URL(url).hostname` gives
Sec == "https://www.sec.gov/acme"
Wiki == "https://en.wikipedia.org/wiki/Acme"
Site == "https://www.acme.com/about"
Blog == "https://acme.blogspot.com/ceo"
TrustedUrl == "about:trusted-fact"
WebUrl == "a"                      \* the url of the web result of the model

\* getAuthorityScore: the first suffix rule the host name matches
getAuthorityScore(url) ==
  CASE url = Sec -> 100            \* host.endsWith('sec.gov')
    [] url = Wiki -> 85            \* host.endsWith('wikipedia.org')
    [] url = Site -> 65            \* host.startsWith('www.'), not a blog host
    [] url = WebUrl -> 0           \* new URL(url) throws
    [] OTHER -> 50                 \* acme.blogspot.com, and the empty host of about:

\* dedupeByUrl: the first source of every url, in order
RECURSIVE dedupeByUrl(_)
dedupeByUrl(sources) ==
  IF sources = <<>> THEN <<>>
  ELSE LET rest == dedupeByUrl(SubSeq(sources, 1, Len(sources) - 1))
           last == sources[Len(sources)]
       IN IF \E k \in 1..Len(rest) : rest[k] = last THEN rest ELSE Append(rest, last)

\* one pass of the stable sort: s put behind every source that scores as high
RECURSIVE InsertByAuthority(_, _)
InsertByAuthority(s, sorted) ==
  IF sorted = <<>> THEN <<s>>
  ELSE IF getAuthorityScore(Head(sorted)) >= getAuthorityScore(s)
       THEN <<Head(sorted)>> \o InsertByAuthority(s, Tail(sorted))
       ELSE <<s>> \o sorted

\* sortSourcesByAuthority: [...sources].sort((a, b) => score(b) - score(a))
RECURSIVE sortSourcesByAuthority(_)
sortSourcesByAuthority(sources) ==
  IF sources = <<>> THEN <<>>
  ELSE InsertByAuthority(sources[Len(sources)],
                         sortSourcesByAuthority(SubSeq(sources, 1, Len(sources) - 1)))

NoEntity == <<>>        \* no entity came with the request

\* a subject as the reasoner writes it; canonical_id <<>> when it gives none
NoSubject == [present |-> FALSE, name |-> <<>>, type |-> <<>>, canonical_id |-> <<>>]
Subject(name, type, id) == [present |-> TRUE, name |-> name, type |-> type, canonical_id |-> id]

\* one entry of "variables"; confidence in hundredths, Null when absent
Variable(subject, name, type, value, confidence, sources) ==
  [subject |-> subject, name |-> name, type |-> type, value |-> value,
   confidence |-> confidence, sources |-> sources]

\* variable.name.toLowerCase() over the names of the model
NameLower(name) == IF name = "Founded_Date" THEN "founded_date" ELSE name

\* String.prototype.includes over the names of the model
includes(name, part) == name = "founded_date" /\ part \in {"found", "date"}

\* needsTwoAgreeingSources
needsTwoAgreeingSources(variable) ==
  \/ variable.type \in {"date", "number", "string"}
  \/ includes(NameLower(variable.name), "found") /\ includes(NameLower(variable.name), "date")

\* `${minCorroboration} source${minCorroboration > 1 ? 's' : ''}`
AtLeast(minCorroboration) == IF minCorroboration > 1 THEN "2 sources" ELSE "1 source"

\* the issues validateCitations pushes for one variable, in order
IssuesOf(v, policy) ==
  LET srcCount == Len(v.sources)
      head == "Variable \"" \o v.name \o "\" requires at least "
  IN (IF srcCount < policy.minCorroboration
      THEN <<head \o AtLeast(policy.minCorroboration) \o ".">> ELSE <<>>)
     \o (IF needsTwoAgreeingSources(v) /\ srcCount < 2
         THEN <<head \o "two agreeing sources (date/number/string).">> ELSE <<>>)
     \o (IF policy.requireAuthority /\ srcCount > 0
            /\ ~\E k \in 1..srcCount : getAuthorityScore(v.sources[k]) >= 70
         THEN <<head \o "one high-authority source (authority score >= 70).">> ELSE <<>>)

RECURSIVE AllIssues(_, _)
AllIssues(variables, policy) ==
  IF variables = <<>> THEN <<>>
  ELSE IssuesOf(Head(variables), policy) \o AllIssues(Tail(variables), policy)

\* variant: the gate without the two-source rule for date/number/string
validateCitations_minOnly(variables, policy) ==
  [ok |-> \A k \in 1..Len(variables) : Len(variables[k].sources) >= policy.minCorroboration,
   issues |-> <<>>]

\* validateCitations(variables, evidencePolicy)
validateCitations(variables, policy) ==
  [ok |-> AllIssues(variables, policy) = <<>>, issues |-> AllIssues(variables, policy)]

----------------------------------------------------------------------------
(* The agent loop: what the reasoner and the environment can supply *)

ToolCall(name, args) == [name |-> name, args |-> args]

WsAcme == ToolCall("web_search", << <<"query", QAcme>> >>)
WsFounder == ToolCall("web_search", << <<"query", QFounder>> >>)
WsQueryNum == ToolCall("web_search", << <<"query", QAcme>>, <<"num", N3>> >>)
WsNumQuery == ToolCall("web_search", << <<"num", N3>>, <<"query", QAcme>> >>)
WsEmpty == ToolCall("web_search", << <<"query", QEmpty>> >>)
WsPlaceholder == ToolCall("web_search", << <<"query", QPlaceholder>> >>)
WsOneToken == ToolCall("web_search", << <<"query", QOneToken>> >>)
WsOffTopic == ToolCall("web_search", << <<"query", QOffTopic>> >>)
LfAcme == ToolCall("latest_finder", << <<"query", QAcme>> >>)
LfNoArgs == ToolCall("latest_finder", <<>>)
EpClaimsCall == ToolCall("evaluate_plausibility", << <<"input", InClaims>> >>)
EpNumber == ToolCall("evaluate_plausibility", << <<"input", N3>> >>)
KqFounded == ToolCall("knowledge_query", << <<"input", InFounded>> >>)
KqCeo == ToolCall("knowledge_query", << <<"input", InCeo>> >>)
KqNobody == ToolCall("knowledge_query", << <<"input", InNobody>> >>)
KqNoInput == ToolCall("knowledge_query", <<>>)
Calculator == ToolCall("calculator", <<>>)

\* the final answers of the reasoner: prose, and the schema's JSON with one
\* or two variables
FinalText == "Who are you referring to?"
FinalCited == "{\"variables\":[{\"subject\":Acme,\"value\":\"42\",\"sources\":[sec,site]}]}"
FinalUncited == "{\"variables\":[{\"subject\":Acme,\"value\":\"42\",\"sources\":[]}]}"
FinalOneSource == "{\"variables\":[{\"subject\":Acme,\"type\":\"string\",\"sources\":[sec]}]}"
FinalBoolean == "{\"variables\":[{\"subject\":Acme,\"name\":\"is_public\",\"sources\":[wiki]}]}"
FinalLowAuthority == "{\"variables\":[{\"subject\":Acme,\"name\":\"Founded_Date\",\"sources\":[site,blog,site]}]}"
FinalForbidden == "{\"variables\":[{\"subject\":Acme,\"name\":\"film_title\",\"sources\":[sec,site]}]}"
FinalForeignId == "{\"variables\":[{\"subject\":{Acme,\"canonical_id\":\"cmp_x\"},\"sources\":[sec,site]}]}"
FinalBob == "{\"variables\":[{\"subject\":Bob,\"value\":\"7\",\"sources\":[sec,site]}]}"
FinalNoValue == "{\"variables\":[{\"subject\":Acme,\"sources\":[sec,site]},{\"name\":\"is_public\"}]}"
FinalNoSubject == "{\"variables\":[{\"value\":\"42\",\"sources\":[sec,site]}]}"
FinalNoType == "{\"variables\":[{\"subject\":{\"name\":\"Acme\"},\"value\":\"42\",\"sources\":[sec,site]}]}"
FinalRepeated == "{\"variables\":[{\"subject\":Acme,\"value\":\"44\",\"sources\":[sec,sec]}]}"
ToolsRequested == ""              \* the content of a message that only calls tools

NoDoc == [json |-> FALSE, variables |-> <<>>]
Doc(variables) == [json |-> TRUE, variables |-> variables]

AcmeSubject == Subject(Acme.name, Acme.type, <<>>)

\* JSON.parse(content): the variables of a final answer; the reasoner names
\* its main variable after the expected variable of the run
JSONparse(content, expected) ==
  CASE content = FinalCited ->
         Doc(<<Variable(AcmeSubject, expected, "string", "42", 90, <<Sec, Site>>)>>)
    [] content = FinalUncited ->
         Doc(<<Variable(AcmeSubject, expected, "string", "42", 90, <<>>)>>)
    [] content = FinalOneSource ->
         Doc(<<Variable(AcmeSubject, expected, "string", "43", 60, <<Sec>>)>>)
    [] content = FinalBoolean ->
         Doc(<<Variable(AcmeSubject, "is_public", "boolean", "true", 60, <<Wiki>>)>>)
    [] content = FinalLowAuthority ->
         Doc(<<Variable(AcmeSubject, "Founded_Date", "text", "1999", Null, <<Site, Blog, Site>>)>>)
    [] content = FinalForbidden ->
         Doc(<<Variable(AcmeSubject, "film_title", "text", "Up", 60, <<Sec, Site>>)>>)
    [] content = FinalForeignId ->
         Doc(<<Variable(Subject(Acme.name, Acme.type, <<"c", "m", "p", "_", "x">>),
                        expected, "string", "43", 60, <<Sec, Site>>)>>)
    [] content = FinalBob ->
         Doc(<<Variable(Subject(Bob.name, Bob.type, <<>>), expected, "string", "7", 40,
                        <<Sec, Site>>)>>)
    [] content = FinalNoValue ->
         Doc(<<Variable(AcmeSubject, expected, "string", Undefined, 60, <<Sec, Site>>),
               Variable(AcmeSubject, "is_public", "boolean", "true", 60, <<Sec, Site>>)>>)
    [] content = FinalNoSubject ->
         Doc(<<Variable(NoSubject, expected, "string", "42", 60, <<Sec, Site>>)>>)
    [] content = FinalNoType ->
         Doc(<<Variable(Subject(Acme.name, <<>>, <<>>), expected, "string", "42", 60,
                        <<Sec, Site>>)>>)
    [] content = FinalRepeated ->
         Doc(<<Variable(AcmeSubject, expected, "string", "44", 90, <<Sec, Sec>>)>>)
    [] OTHER -> NoDoc

\* the facts one answer can make storeFact insert
NVars(content) == Len(JSONparse(content, "").variables)

\* the scenario families of the agent specification: the environment
\* (process.env, read when a run starts) and what the reasoner may send
Families == {"tools", "steps", "nesting", "history", "answers"}

EnvSteps(fam) ==
  CASE fam = "steps" -> {NaN, Num2(0), Num2(2), Num2(5), Num2(40)}
    [] fam = "tools" -> {Num2(4)}
    [] fam = "answers" -> {Num2(4), Num2(3)}
    [] OTHER -> {Num2(2)}

EnvWeb(fam) == IF fam = "tools" THEN {NaN, Num2(3)} ELSE {NaN}

\* CHAT_MEMORY_WINDOW: Number(process.env.CHAT_MEMORY_WINDOW || 8)
DefaultWindow == 8
Windows(fam) == IF fam = "history" THEN {0, 3, DefaultWindow} ELSE {DefaultWindow}

\* routerOut.evidencePolicy: minCorroboration is clamped to 1..5
HeuristicPolicy == [minCorroboration |-> 1, requireAuthority |-> FALSE]
Policies(fam) ==
  IF fam = "answers"
  THEN {HeuristicPolicy, [minCorroboration |-> 1, requireAuthority |-> TRUE],
        [minCorroboration |-> 2, requireAuthority |-> FALSE]}
  ELSE {HeuristicPolicy}

\* the names routerOut.attrConstraints marks 'forbidden'
ForbiddenNames(fam) == IF fam = "answers" THEN {"film_title"} ELSE {}

Cfgs ==
  UNION {[fam : {fam}, envSteps : EnvSteps(fam), envWeb : EnvWeb(fam),
          window : Windows(fam), policy : Policies(fam),
          forbidden : {ForbiddenNames(fam)}] : fam \in Families}

\* the entity field of the request; NoEntity when there is none
RequestEntities(fam) ==
  CASE fam = "tools" -> {NoEntity}
    [] fam = "answers" -> {NoEntity, Acme.name}
    [] OTHER -> {Acme.name}

Intensities(fam) == IF fam = "steps" THEN {"low", "medium", "high"} ELSE {"low"}

RequestSessions(fam) == IF fam = "history" THEN {"s1", ""} ELSE {"s1"}

\* the batches of tool calls one reasoner message may carry
Batches(fam) ==
  CASE fam = "tools" ->
         {<<WsQueryNum, WsNumQuery>>, <<WsAcme, WsFounder>>, <<LfAcme, WsEmpty>>,
          <<LfNoArgs, Calculator>>, <<EpClaimsCall, EpClaimsCall>>, <<EpNumber, EpNumber>>,
          <<WsPlaceholder, WsOneToken, WsOffTopic>>}
    [] fam = "steps" -> {<<EpClaimsCall>>}
    [] fam = "nesting" ->
         {<<KqFounded>>, <<KqCeo, KqNobody>>, <<KqNoInput, KqFounded>>, <<WsAcme, WsFounder>>,
          <<WsAcme, WsFounder, KqFounded>>}
    [] fam = "answers" -> {<<Calculator>>}
    [] OTHER -> {<<WsAcme, WsAcme>>, <<EpNumber>>, <<KqFounded>>}

Finals(fam) ==
  CASE fam = "tools" -> {FinalText, FinalUncited}
    [] fam = "steps" -> {FinalCited}
    [] fam = "history" -> {FinalText}
    [] fam = "answers" ->
         {FinalText, FinalCited, FinalUncited, FinalOneSource, FinalBoolean,
          FinalLowAuthority, FinalForbidden, FinalForeignId, FinalBob, FinalNoValue,
          FinalNoSubject, FinalRepeated, FinalNoType}
    [] OTHER -> {FinalText, FinalCited}

----------------------------------------------------------------------------
(* The agent loop: from the final text to the stored facts *)

\* the entity type the inference router settles on for the default subject
RouterEntityType == Company

\* resolveEntity against the table: the rows afterwards
ResolveEntityRows(rows, name, type) ==
  IF EntityById(rows, candidateId(name, type)) # {}
     \/ EntityByName(rows, normalizedName(name), normalizedType(type)) # {}
  THEN rows
  ELSE InsertEntity(rows, candidateId(name, type), normalizedType(type), normalizedName(name))

\* variant: the lookup takes any entity for the name
tryResolveExistingEntity_any(rows, name) == rows

\* tryResolveExistingEntity: LOWER(canonical_name) = LOWER($1) ... LIMIT 1
tryResolveExistingEntity(rows, name) ==
  {e \in rows : toLowerCase(e.canonical_name) = toLowerCase(name)}

\* lines 438-445: a variable without a subject gets the default subject,
\* unless no entity came with the request ('Unknown Entity')
withDefaultSubject(v, entity) ==
  IF ~v.subject.present /\ entity # NoEntity
  THEN [v EXCEPT !.subject = Subject(entity, RouterEntityType, <<>>)] ELSE v

\* lines 447-450: the filter on attrConstraints and on the subject
RECURSIVE allowedVars(_, _, _)
allowedVars(variables, entity, forbidden) ==
  IF variables = <<>> THEN <<>>
  ELSE LET v == withDefaultSubject(Head(variables), entity)
           rest == allowedVars(Tail(variables), entity, forbidden)
       IN IF v.name \notin forbidden /\ v.subject.present THEN <<v>> \o rest ELSE rest

\* typeof v.confidence === 'number' && 0 <= v.confidence <= 1 ? v.confidence : 0.5
ConfidenceOr(confidence) == IF confidence = Null THEN 50 ELSE confidence

\* EnrichmentSchema.safeParse: subject, its name and type, and value are
\* required keys (a name or type of <<>> is a missing key)
SchemaOk(v) ==
  /\ v.subject.present /\ v.subject.name # <<>> /\ v.subject.type # <<>>
  /\ v.value # Undefined

\* lines 648-653: the schema's output (defaults filled in) when the answer
\* parses and fits the schema, the answer as it is otherwise
normalized(doc) ==
  IF doc.json /\ \A k \in 1..Len(doc.variables) : SchemaOk(doc.variables[k])
  THEN Doc([k \in 1..Len(doc.variables) |->
              [doc.variables[k] EXCEPT !.confidence = ConfidenceOr(@)]])
  ELSE doc

\* the loop of finalizeResult, lines 112-145: the variables kept and the
\* entities table after the resolveEntity calls
NeedsFill(v, entity) == ~v.subject.present /\ entity # NoEntity

NeedsResolve(v, entity) ==
  NeedsFill(v, entity) \/ (v.subject.present /\ v.subject.canonical_id = <<>>)

SubjectName(v, entity) == IF NeedsFill(v, entity) THEN entity ELSE v.subject.name

SubjectType(v, entity) == IF NeedsFill(v, entity) THEN RouterEntityType ELSE v.subject.type

\* lines 114-128: the subject of the variable in the result
ResolvedSubject(name, type, rows) == Subject(name, type, WouldResolve(rows, name, type))

FinalSubject(v, entity, rows) ==
  IF NeedsResolve(v, entity)
  THEN ResolvedSubject(SubjectName(v, entity), SubjectType(v, entity), rows)
  ELSE v.subject

\* entityResolver.ts lines 125-127, reached from lines 116 and 123:
\* resolveEntity throws when the name or the type is missing or empty
ResolveThrows(v, entity) ==
  NeedsResolve(v, entity) /\ (SubjectName(v, entity) = <<>> \/ SubjectType(v, entity) = <<>>)

\* the entities table after the subject was resolved
RowsAfter(v, entity, rows) ==
  IF NeedsResolve(v, entity)
  THEN ResolveEntityRows(rows, SubjectName(v, entity), SubjectType(v, entity))
  ELSE rows

\* lines 130-144: the variable as pushed on the result
Pushed(v, subject, rest) ==
  IF ~subject.present THEN rest
  ELSE [variables |-> <<[v EXCEPT !.subject = subject, !.confidence = ConfidenceOr(@),
                                  !.sources = sortSourcesByAuthority(dedupeByUrl(@))]>>
                      \o rest.variables,
        entities |-> rest.entities, threw |-> rest.threw]

\* lines 112-145: the loop over parsed.variables; a resolveEntity that throws
\* ends it, and finalizeResult with it
RECURSIVE FinalizeVars(_, _, _)
FinalizeVars(variables, entity, rows) ==
  IF variables = <<>> THEN [variables |-> <<>>, entities |-> rows, threw |-> FALSE]
  ELSE IF ResolveThrows(Head(variables), entity)
  THEN [variables |-> <<>>, entities |-> rows, threw |-> TRUE]
  ELSE Pushed(Head(variables), FinalSubject(Head(variables), entity, rows),
              FinalizeVars(Tail(variables), entity, RowsAfter(Head(variables), entity, rows)))

FallbackNote == "LLM returned non-JSON; using fallback."
ClassifiedIntent == "specific"

\* lines 147-162: the variable synthesised from the web results
ContextVariable(entity, web, rows) ==
  Variable(Subject(entity, RouterEntityType, WouldResolve(rows, entity, RouterEntityType)),
           "context", "text", IF web = <<>> THEN "" ELSE "digest of the web results",
           40, web)

\* lines 147-168: the context variable when nothing was pushed, and the result
Finalized(doc, intent, web, entity, fin) ==
  IF fin.variables = <<>> /\ entity # NoEntity /\ ~fin.threw
  THEN [intent |-> intent,
        variables |-> <<ContextVariable(entity, web, fin.entities)>>,
        notes |-> IF doc.json THEN Undefined ELSE FallbackNote,
        entities |-> ResolveEntityRows(fin.entities, entity, RouterEntityType),
        threw |-> FALSE]
  ELSE [intent |-> intent, variables |-> IF fin.threw THEN <<>> ELSE fin.variables,
        notes |-> IF doc.json THEN Undefined ELSE FallbackNote,
        entities |-> fin.entities, threw |-> fin.threw]

\* variant: finalizeResult without the note of the catch branch
finalizeResult_noNote(doc, intent, web, entity, rows) ==
  [Finalized(doc, intent, web, entity, FinalizeVars(doc.variables, entity, rows))
     EXCEPT !.notes = Undefined]

\* finalizeResult(raw, intent, web, defaultSubject)
finalizeResult(doc, intent, web, entity, rows) ==
  Finalized(doc, intent, web, entity, FinalizeVars(doc.variables, entity, rows))

\* getFactsForEntity: the current rows of the entity
getFactsForEntity(rows, id) == {r \in rows : r.entity_id = id /\ r.valid_to = Null}

\* lines 669-671: the source that stands for the trusted fact
tfSource(tf) == IF tf.sources # <<>> THEN tf.sources[1] ELSE TrustedUrl

\* lines 661-674 for one variable
overlay(v, trustedFacts) ==
  LET found == {f \in trustedFacts : f.name = v.name}
  IN IF found = {} THEN v
     ELSE LET tf == CHOOSE f \in found : TRUE
              trustedConfidence == IF tf.confidence = Null THEN 0 ELSE tf.confidence
          IN IF trustedConfidence >= v.confidence
             THEN [v EXCEPT !.value = tf.value, !.confidence = trustedConfidence,
                            !.sources = dedupeByUrl(<<tfSource(tf)>> \o @)]
             ELSE v

\* the row storeFact inserts for a variable of the result
FactRow(id, e, v, t) ==
  [NewRow(id, e, v.name, v.value, t) EXCEPT !.confidence = v.confidence,
                                            !.sources = v.sources]

\* lines 35-67: the INSERT and what the call leaves
Inserted(v, db, now, eid, closed, ok) ==
  [entities |-> ResolveEntityRows(db.entities, v.subject.name, v.subject.type),
   facts |-> IF ok THEN closed \cup {FactRow(db.nextId, eid, v, now)} ELSE closed,
   nextId |-> db.nextId + 1,
   everCurrent |-> IF ok THEN db.everCurrent \cup {<<eid, v.name>>} ELSE db.everCurrent,
   persisted |-> IF ok THEN Append(db.persisted, [variable |-> v, entity_id |-> eid])
                 ELSE db.persisted,
   failed |-> ~ok]

\* lines 28-51: the UPDATE, then the INSERT against the rows it left
Closed(v, db, now, eid, closed) ==
  Inserted(v, db, now, eid, closed,
           NotNullOk(JsonStringify(v.value)) /\ UniqueIndexOk(closed, eid, v.name))

StoredUnder(v, db, now, eid) == Closed(v, db, now, eid, UpdateClose(db.facts, now, eid, v.name))

\* storeFact(variable, observedAt) with no other request in flight: the
\* tables afterwards, what was written, and whether the call threw
storeFact(v, db, now) ==
  StoredUnder(v, db, now, WouldResolve(db.entities, v.subject.name, v.subject.type))

RECURSIVE StoreAll(_, _, _)

\* the loop goes on unless the call threw
StoreRest(rest, after, now) == IF after.failed THEN after ELSE StoreAll(rest, after, now)

\* lines 678-688: the loop stops at the first storeFact that throws
StoreAll(variables, db, now) ==
  IF variables = <<>> THEN db
  ELSE IF Head(variables).name = "context" \/ ~Head(variables).subject.present
          \/ Head(variables).subject.canonical_id = <<>>
       THEN StoreAll(Tail(variables), db, now)
       ELSE StoreRest(Tail(variables), storeFact(Head(variables), db, now), now)

\* variant: the error of storeFact is not caught
Returns_rethrow(db) == ~db.failed

\* lines 686-691: the catch logs the error and the result is returned
Returns(db) == TRUE

----------------------------------------------------------------------------
(* The agent loop: the state of one runAgent call *)

\* bounds of the agent specification
MaxRuns == 2          \* requests served one after the other
MaxDepth == 3         \* runAgent calls on the stack

RunsAllowed(fam) == IF fam = "history" THEN MaxRuns ELSE 1

\* the citation gate has not been asked in this run
NoGate == [evaluated |-> FALSE, step |-> 0, variables |-> <<>>, ok |-> TRUE, issues |-> <<>>]

\* the locals of runAgent; ran and first are bookkeeping for the properties:
\* which calls reached their tool, and what each first call came back with;
\* gate is the latest validateCitations call, produced the messages pushed
\* on `messages` behind the prior history, appended those given to history
NewFrame(sessionId, entity, expected, intensity) ==
  LET caps == getIntensityCaps(intensity, cfg.envSteps, cfg.envWeb)
  IN [pc |-> "loop",
      sid |-> IF sessionId = "" THEN DefaultSession ELSE sessionId,
      entity |-> entity, expected |-> expected,
      MAX_STEPS2 |-> caps.maxIterations2, maxWebSearches2 |-> caps.maxWebSearches2,
      steps |-> 0, webSearchCount |-> 0, finalRaw |-> NoDoc,
      toolUseRegistry |-> {}, toolResultCache |-> {},
      toolCalls |-> <<>>, i |-> 1, pendingToolMsgs |-> <<>>, outcomes |-> FALSE,
      waitingOn |-> <<>>, invocations |-> 0, askedTools |-> FALSE, forced |-> FALSE,
      ran |-> {}, first |-> {},
      trustedFacts |-> IF entity = NoEntity THEN {}
                       ELSE UNION {getFactsForEntity(facts, e.id) :
                                     e \in tryResolveExistingEntity(entities, entity)},
      webResults |-> <<>>, gate |-> NoGate,
      produced |-> <<HumanMessage(Intro)>>, appended |-> <<>>]

Top == frames[Len(frames)]
SetTop(f) == [frames EXCEPT ![Len(frames)] = f]

\* history.addMessage / history.addUserMessage
AddMessages(hs, sid, ms) == [hs EXCEPT ![sid] = @ \o ms]

NoCall ==
  [name |-> "", dup |-> FALSE, invoked |-> FALSE, payload |-> "", atLimit |-> FALSE,
   firstKind |-> "", firstPayload |-> ""]

\* the ways a tool call can come back: the text, whether invoke() threw,
\* whether the tool was invoked at all, the backend searches it made and
\* whether the call counts against the web budget
Returned(result, invoked, searches, counted) ==
  [result |-> result, threw |-> FALSE, invoked |-> invoked, searches |-> searches,
   counted |-> counted]

\* the catch of lines 589-595: a zod failure surfaces as a ZodError or wrapped
\* in the tool library's own exception, depending on the library
SchemaThrown ==
  {[result |-> t, threw |-> TRUE, invoked |-> TRUE, searches |-> 0, counted |-> 0] :
     t \in {SchemaError, ExecError}}

\* a TypeError out of the tool body
TypeThrown ==
  {[result |-> ExecError, threw |-> TRUE, invoked |-> TRUE, searches |-> 0, counted |-> 0]}

\* one round of latest_finder searches once per refined query (1 to 3)
LatestFinderSearches == {1, 3}

AtLimit(f) == 2 * f.webSearchCount >= f.maxWebSearches2

\* the duplicate branch, lines 500-516
DuplicateOutcome(f, fp) ==
  LET cached == CacheGet(f.toolResultCache, fp)
  IN IF cached # {} /\ cached # {""}
     THEN {Returned(CHOOSE r \in cached : TRUE, FALSE, 0, 0)}
     ELSE {Returned(DuplicateBlocked, FALSE, 0, 0)}

\* the branches of lines 520-569 for the tools that do not start a run
ExecuteOutcomes(f, tc) ==
  CASE tc.name = "web_search" ->
         IF proposed(tc.args).len > 0 /\ AtLimit(f) THEN {Returned(LimitReached, FALSE, 0, 0)}
         ELSE IF ~WebSearchSchemaOk(tc.args) THEN SchemaThrown
         ELSE {Returned(r, TRUE, 1, 1) : r \in WebSearchResults}
    [] tc.name = "latest_finder" ->
         IF AtLimit(f) THEN {Returned(LimitReached, FALSE, 0, 0)}
         ELSE IF ~LatestFinderSchemaOk(tc.args) THEN SchemaThrown
         ELSE {Returned("{\"error\":\"Missing TAVILY_API_KEY\"}", TRUE, 0, 0)}
              \cup {Returned("{latest_date:d1,...}", TRUE, n, 1) : n \in LatestFinderSearches}
    [] tc.name = "evaluate_plausibility" ->
         IF ~DynamicToolSchemaOk(tc.args) THEN SchemaThrown
         ELSE IF EpClaims(DynamicToolInput(tc.args)) = 0 THEN {Returned(NoClaims, TRUE, 0, 0)}
         ELSE {Returned(r, TRUE, 0, 0) : r \in PlausibilityResults}
    [] OTHER -> {Returned(UnknownTool, FALSE, 0, 0)}

\* bookkeeping: how often the call reached its tool, and the backend searches
RanCount(ran, key) ==
  IF \E r \in ran : r.key = key THEN CHOOSE r \in ran : r.key = key
  ELSE [key |-> key, invoked |-> 0, searches |-> 0]

NoteRan(ran, key, out) ==
  IF ~out.invoked THEN ran
  ELSE LET old == RanCount(ran, key)
       IN (ran \ {old}) \cup {[key |-> key, invoked |-> old.invoked + 1,
                                searches |-> old.searches + out.searches]}

FirstOf(f, fp) ==
  IF \E x \in f.first : x.fp = fp THEN CHOOSE x \in f.first : x.fp = fp
  ELSE [fp |-> fp, kind |-> "", payload |-> ""]

\* lines 602-608: the nudge after a rejected evaluate_plausibility call
NudgeAfter(tc, out) ==
  IF tc.name = "evaluate_plausibility" /\ out.result = SchemaError
  THEN <<HumanMessage(PlausibilityNudge)>> ELSE <<>>

\* lines 499-600 for the call tc of the frame f once its outcome is known:
\* the registry entry, the cache entry, the counters and the tool message
Deliver(f, tc, out) ==
  LET fp == Fingerprint(tc.name, tc.args)
      allowed == fp \notin f.toolUseRegistry
      listed == IF allowed THEN TRUE
                ELSE out.result = DuplicateBlocked \/ isFailedOrEmptyResult(tc.name, out.result)
  IN [f EXCEPT
        !.toolUseRegistry = @ \cup {fp},
        !.toolResultCache = IF allowed /\ ~out.threw THEN CacheSet(@, fp, out.result) ELSE @,
        !.webSearchCount = @ + out.counted,
        !.pendingToolMsgs = Append(@, ToolMessage(tc.id, out.result)),
        !.produced = Append(@, ToolMessage(tc.id, out.result)) \o NudgeAfter(tc, out),
        !.appended = @ \o NudgeAfter(tc, out),
        !.webResults = IF tc.name = "web_search" /\ allowed /\ out.result = "[{url:a}]"
                       THEN Append(@, WebUrl) ELSE @,
        !.outcomes = @ \/ listed,
        !.i = @ + 1,
        !.pc = "tools",
        !.waitingOn = <<>>,
        !.ran = NoteRan(@, CallKey(tc.name, tc.args), out),
        !.first = IF allowed
                  THEN @ \cup {[fp |-> fp, kind |-> IF out.threw THEN "threw" ELSE "returned",
                                payload |-> out.result]}
                  ELSE @]

\* what the properties need to know about the call just answered
CallRecord(f, tc, out) ==
  LET fp == Fingerprint(tc.name, tc.args)
  IN [name |-> tc.name, dup |-> fp \in f.toolUseRegistry, invoked |-> out.invoked,
      payload |-> out.result, atLimit |-> AtLimit(f),
      firstKind |-> FirstOf(f, fp).kind, firstPayload |-> FirstOf(f, fp).payload]

CurrentCall(f) == f.toolCalls[f.i]
IsDuplicate(f, tc) == Fingerprint(tc.name, tc.args) \in f.toolUseRegistry

----------------------------------------------------------------------------
(* The agent loop: the steps of runAgent *)

\* POST /api/enrich calls runAgent
StartRun ==
  /\ frames = <<>>
  /\ runs < RunsAllowed(cfg.fam)
  /\ \E intensity \in Intensities(cfg.fam), sessionId \in RequestSessions(cfg.fam),
        entity \in RequestEntities(cfg.fam) :
       frames' = <<NewFrame(sessionId, entity, "ceo_name", intensity)>>
  /\ runs' = runs + 1
  /\ UNCHANGED <<cfg, histories, nextCallId, lastCall, finished, dbVars, sideVars>>

\* variant: a candidate that fails the gate is accepted at once
GateBlocks_never(check, steps, MAX_STEPS2) == FALSE

\* line 463: !check.ok && steps < MAX_STEPS
GateBlocks(check, steps, MAX_STEPS2) == ~check.ok /\ 2 * steps < MAX_STEPS2

\* lines 426-433: the iteration is counted and the message appended
Counted(f, ai) ==
  [f EXCEPT !.steps = @ + 1, !.invocations = @ + 1, !.askedTools = FALSE,
            !.produced = Append(@, ai), !.appended = Append(@, ai)]

\* lines 471-478: the nudge goes behind the candidate and the loop continues
HeldBack(f, ai, nudge) ==
  /\ frames' = SetTop([f EXCEPT !.produced = Append(@, nudge), !.appended = Append(@, nudge)])
  /\ histories' = AddMessages(histories, f.sid, <<ai, nudge>>)

\* lines 480-484: finalRaw is set and the loop is left
Accepted(f, ai, doc) ==
  /\ frames' = SetTop([f EXCEPT !.finalRaw = doc, !.pc = "finish"])
  /\ histories' = AddMessages(histories, f.sid, <<ai>>)

\* lines 461-484 for a candidate that parsed
Gated(f, ai, allowed, check) ==
  IF GateBlocks(check, f.steps, f.MAX_STEPS2)
  THEN HeldBack([f EXCEPT !.gate = [evaluated |-> TRUE, step |-> f.steps, variables |-> allowed,
                                    ok |-> check.ok, issues |-> check.issues]],
                ai, HumanMessage(VerificationNudge(check.issues)))
  ELSE Accepted([f EXCEPT !.gate = [evaluated |-> TRUE, step |-> f.steps, variables |-> allowed,
                                    ok |-> check.ok, issues |-> check.issues]],
                ai, Doc(allowed))

\* lines 454-459: the variables the filter kept whose subject has no name
validationIssues(allowed) ==
  {k \in 1..Len(allowed) : ~allowed[k].subject.present \/ allowed[k].subject.name = <<>>}

MissingFieldsNudge == "Required fields missing: ..."

\* lines 447-478: the filter, then the gate on what it leaves, or the nudge
\* for a subject without a name
Checked(f, ai, allowed) ==
  IF validationIssues(allowed) = {}
  THEN Gated(f, ai, allowed, validateCitations(allowed, cfg.policy))
  ELSE IF 2 * f.steps < f.MAX_STEPS2 THEN HeldBack(f, ai, HumanMessage(MissingFieldsNudge))
  ELSE Accepted(f, ai, Doc(allowed))

\* lines 434-484: the candidate is parsed; text that is no JSON is final as it is
Filtered(ai, parsed) ==
  IF parsed.json
  THEN Checked(Counted(Top, ai), ai, allowedVars(parsed.variables, Top.entity, cfg.forbidden))
  ELSE Accepted(Counted(Top, ai), ai, NoDoc)

\* an iteration whose reasoner message calls no tool, lines 426-485
ReasonerAnswers ==
  /\ frames # <<>> /\ Top.pc = "loop" /\ 2 * Top.steps < Top.MAX_STEPS2
  /\ \E c \in Finals(cfg.fam) :
       /\ nextId + NVars(c) <= MaxRows + 1
       /\ Filtered(AiMessage(<<>>, c), JSONparse(c, Top.expected))
  /\ UNCHANGED <<cfg, nextCallId, lastCall, finished, runs, dbVars, sideVars>>

\* an iteration whose reasoner message carries tool calls, lines 426-490
ReasonerCallsTools ==
  /\ frames # <<>> /\ Top.pc = "loop" /\ 2 * Top.steps < Top.MAX_STEPS2
  /\ \E b \in Batches(cfg.fam) :
       /\ Len(frames) = MaxDepth => \A k \in 1..Len(b) : b[k] # KqFounded
       /\ frames' = SetTop([Top EXCEPT
            !.steps = @ + 1, !.invocations = @ + 1, !.askedTools = TRUE, !.pc = "tools",
            !.toolCalls = [k \in 1..Len(b) |->
                             [id |-> nextCallId + k - 1, name |-> b[k].name, args |-> b[k].args]],
            !.i = 1, !.pendingToolMsgs = <<>>, !.outcomes = FALSE,
            !.produced = Append(@, AiMessage([k \in 1..Len(b) |-> nextCallId + k - 1],
                                             ToolsRequested))])
       /\ nextCallId' = nextCallId + Len(b)
  /\ UNCHANGED <<cfg, histories, lastCall, finished, runs, dbVars, sideVars>>

\* one tool call of the batch that does not reach knowledge_query
ToolCallStep ==
  /\ frames # <<>> /\ Top.pc = "tools" /\ Top.i <= Len(Top.toolCalls)
  /\ LET f == Top
         tc == CurrentCall(f)
     IN /\ IsDuplicate(f, tc) \/ tc.name # "knowledge_query"
        /\ \E out \in (IF IsDuplicate(f, tc)
                       THEN DuplicateOutcome(f, Fingerprint(tc.name, tc.args))
                       ELSE ExecuteOutcomes(f, tc)) :
             /\ frames' = SetTop(Deliver(f, tc, out))
             /\ lastCall' = CallRecord(f, tc, out)
             /\ histories' = AddMessages(histories, f.sid, NudgeAfter(tc, out))
  /\ UNCHANGED <<cfg, nextCallId, finished, runs, dbVars, sideVars>>

\* LOWER(name) LIKE '%base%' over the fact names of the model, none of which
\* contains another
NameLike(name, base) == name = base

\* findSimilarFactNames: the names that match the pattern, the base left out
findSimilarFactNames(rows, e, base) ==
  {r.name : r \in {x \in rows : x.entity_id = e /\ NameLike(x.name, base)}} \ {base}

\* knowledge_query without a nested run: the input is rejected, the entity is
\* missing or unknown, or the fact is already stored
KnowledgeQueryOutcomes(tc) ==
  LET input == DynamicToolInput(tc.args)
      parsed == KqParsed(input)
      resolved == tryResolveExistingEntity(entities, parsed.entity)
  IN IF ~DynamicToolSchemaOk(tc.args) THEN SchemaThrown
     ELSE IF input = Undefined THEN TypeThrown
     ELSE IF parsed.entity = <<>> THEN {Returned(EntityRequired, TRUE, 0, 0)}
     ELSE IF resolved = {} THEN {Returned(EntityUnresolved, TRUE, 0, 0)}
     ELSE {Returned(FactPayload(r), TRUE, 0, 0) :
             r \in UNION {getFact(facts, e.id, parsed.variable_name) : e \in resolved}}

\* the entities knowledge_query would research: resolved, and no fact stored
KnowledgeQueryMisses(tc) ==
  LET input == DynamicToolInput(tc.args)
      parsed == KqParsed(input)
  IN IF ~DynamicToolSchemaOk(tc.args) \/ input = Undefined \/ parsed.entity = <<>> THEN {}
     ELSE {e \in tryResolveExistingEntity(entities, parsed.entity) :
             /\ getFact(facts, e.id, parsed.variable_name) = {}
             /\ findSimilarFactNames(facts, e.id, parsed.variable_name) = {}}

KnowledgeQueryAnswers ==
  /\ frames # <<>> /\ Top.pc = "tools" /\ Top.i <= Len(Top.toolCalls)
  /\ LET f == Top
         tc == CurrentCall(f)
     IN /\ ~IsDuplicate(f, tc) /\ tc.name = "knowledge_query"
        /\ \E out \in KnowledgeQueryOutcomes(tc) :
             /\ frames' = SetTop(Deliver(f, tc, out))
             /\ lastCall' = CallRecord(f, tc, out)
  /\ UNCHANGED <<cfg, histories, nextCallId, finished, runs, dbVars, sideVars>>

\* knowledgeQuery.ts line 86: runAgent(researchQuery, [{ name }], undefined,
\* undefined, entity), a run of its own on the default session
KnowledgeQueryStartsRun ==
  /\ frames # <<>> /\ Top.pc = "tools" /\ Top.i <= Len(Top.toolCalls)
  /\ Len(frames) < MaxDepth
  /\ LET f == Top
         tc == CurrentCall(f)
         parsed == KqParsed(DynamicToolInput(tc.args))
     IN /\ ~IsDuplicate(f, tc) /\ tc.name = "knowledge_query"
        /\ \E e \in KnowledgeQueryMisses(tc) :
             frames' = SetTop([f EXCEPT !.pc = "nested", !.waitingOn = e.id])
                       \o <<NewFrame("", parsed.entity, parsed.variable_name, "medium")>>
  /\ UNCHANGED <<cfg, histories, nextCallId, lastCall, finished, runs, dbVars, sideVars>>

\* after the last tool call of the batch, lines 611-641
EndBatch ==
  /\ frames # <<>> /\ Top.pc = "tools" /\ Top.i > Len(Top.toolCalls)
  /\ LET f == Top
         ai == AiMessage([k \in 1..Len(f.toolCalls) |-> f.toolCalls[k].id], ToolsRequested)
         outcomes == IF f.outcomes /\ 2 * f.steps < f.MAX_STEPS2
                     THEN <<HumanMessage(OutcomesNudge)>> ELSE <<>>
         last == 2 * f.steps = f.MAX_STEPS2
         stop == IF last THEN <<HumanMessage(StopNudge)>> ELSE <<>>
     IN /\ histories' = AddMessages(histories, f.sid,
                                    <<ai>> \o f.pendingToolMsgs \o outcomes \o stop)
        /\ frames' = SetTop([f EXCEPT !.pc = IF last THEN "forced" ELSE "loop",
                                      !.produced = @ \o outcomes \o stop,
                                      !.appended = @ \o <<ai>> \o f.pendingToolMsgs
                                                     \o outcomes \o stop])
  /\ UNCHANGED <<cfg, nextCallId, lastCall, finished, runs, dbVars, sideVars>>

\* lines 636-640: the reasoner is invoked once more and its content is final
ForcedFinal ==
  /\ frames # <<>> /\ Top.pc = "forced"
  /\ \E c \in Finals(cfg.fam) :
       /\ nextId + NVars(c) <= MaxRows + 1
       /\ frames' = SetTop([Top EXCEPT !.invocations = @ + 1, !.forced = TRUE,
                                       !.finalRaw = JSONparse(c, Top.expected), !.pc = "finish",
                                       !.produced = Append(@, AiMessage(<<>>, c)),
                                       !.appended = Append(@, AiMessage(<<>>, c))])
       /\ histories' = AddMessages(histories, Top.sid, <<AiMessage(<<>>, c)>>)
  /\ UNCHANGED <<cfg, nextCallId, lastCall, finished, runs, dbVars, sideVars>>

\* lines 678-691: the result, and the tables after the store loop; when
\* finalizeResult threw (line 656) neither the overlay nor the loop is reached
Stored(fin, variables) ==
  [finalized |-> fin.variables,
   result |-> [intent |-> fin.intent, variables |-> variables, notes |-> fin.notes],
   threw |-> fin.threw,
   db |-> StoreAll(IF fin.threw THEN <<>> ELSE variables,
                   [entities |-> fin.entities, facts |-> facts, nextId |-> nextId,
                    everCurrent |-> everCurrent, persisted |-> <<>>, failed |-> FALSE],
                   NowOf(clock, clock))]

\* lines 659-676: the trusted facts are laid over the finalised variables
Overlaid(fin, trustedFacts) ==
  Stored(fin, [k \in 1..Len(fin.variables) |-> overlay(fin.variables[k], trustedFacts)])

\* lines 648-691 with no other request in flight: the answer is normalised
\* and finalised, the trusted facts are laid over it, its variables are stored
Complete(f) ==
  Overlaid(finalizeResult(normalized(f.finalRaw), ClassifiedIntent, f.webResults,
                          f.entity, entities),
           f.trustedFacts)

\* the while loop is left: by break, or because steps < MAX_STEPS is false
Finishing(f) == f.pc = "finish" \/ (f.pc = "loop" /\ ~(2 * f.steps < f.MAX_STEPS2))

\* what is kept of a run that ended: its counters, what it was given, the
\* result before and after the overlay, what the store loop wrote, and
\* whether runAgent returned the result
Summary(f, done) ==
  [steps |-> f.steps, invocations |-> f.invocations, MAX_STEPS2 |-> f.MAX_STEPS2,
   askedTools |-> f.askedTools, forced |-> f.forced, finalRaw |-> f.finalRaw,
   entity |-> f.entity, trustedFacts |-> f.trustedFacts, gate |-> f.gate,
   finalized |-> done.finalized, computed |-> done.result,
   persisted |-> done.db.persisted, storeFailed |-> done.db.failed,
   threw |-> done.threw,
   returned |-> Returns(done.db) /\ ~done.threw,
   result |-> IF Returns(done.db) /\ ~done.threw THEN done.result
              ELSE [intent |-> "", variables |-> <<>>, notes |-> Undefined]]

\* lines 644-691: the history is trimmed, the tables and the result are left
Finish(f, done) ==
  /\ histories' = [histories EXCEPT ![f.sid] = trimHistory(@, cfg.window)]
  /\ entities' = done.db.entities /\ facts' = done.db.facts
  /\ nextId' = done.db.nextId /\ everCurrent' = done.db.everCurrent
  /\ finished' = <<Summary(f, done)>>

\* lines 644-691 of the run the request started: trim, finalise, store, return
FinishRequest ==
  /\ Len(frames) = 1 /\ Finishing(Top)
  /\ Finish(Top, Complete(Top))
  /\ frames' = <<>>
  /\ UNCHANGED <<cfg, nextCallId, lastCall, runs, clock, calls, lastRead, sideVars>>

\* knowledgeQuery.ts lines 92-111: the waiting tool call is answered
Answer(parent, tc, out) ==
  /\ frames' = SubSeq(frames, 1, Len(frames) - 2) \o <<Deliver(parent, tc, out)>>
  /\ lastCall' = CallRecord(parent, tc, out)

\* knowledgeQuery.ts lines 92-109: the fact is read again
ReadAgain(found) ==
  IF found # {} THEN Returned(FactPayload(CHOOSE r \in found : TRUE), TRUE, 0, 0)
  ELSE Returned(NoFactFound, TRUE, 0, 0)

FinishInner(f, done, parent) ==
  /\ Finish(f, done)
  /\ Answer(parent, CurrentCall(parent),
            ReadAgain(getFact(done.db.facts, parent.waitingOn, f.expected)))

\* the same for a run knowledge_query started; knowledgeQuery.ts lines 92-111
\* then read the fact again and the waiting tool call is answered
FinishNested ==
  /\ Len(frames) > 1 /\ Finishing(Top)
  /\ FinishInner(Top, Complete(Top), frames[Len(frames) - 1])
  /\ UNCHANGED <<cfg, nextCallId, runs, clock, calls, lastRead, sideVars>>

AgentIdle ==
  /\ frames = <<>>
  /\ histories = [sid \in Sessions |-> <<>>]
  /\ nextCallId = 1
  /\ lastCall = NoCall
  /\ finished = <<>>
  /\ runs = 0

----------------------------------------------------------------------------
(* The relevance guard of web_search *)

\* .split(/[^a-z0-9]+/i).filter(Boolean): the maximal runs of letters and digits
RECURSIVE Split(_, _, _)
Split(s, word, words) ==
  IF s = <<>> THEN (IF word = <<>> THEN words ELSE Append(words, word))
  ELSE IF IsAlnum(Head(s)) THEN Split(Tail(s), Append(word, Head(s)), words)
  ELSE Split(Tail(s), <<>>, IF word = <<>> THEN words ELSE Append(words, word))

\* tokenize(text)
tokenize(text) == Split(toLowerCase(text), <<>>, <<>>)

TokenSet(text) == {tokenize(text)[i] : i \in 1..Len(tokenize(text))}

\* buildRelevantTokens(userQuery, expectedVars, routerOut, entity, target)
buildRelevantTokens(userQuery, expectedVars, boost, entity, target) ==
  TokenSet(userQuery) \cup TokenSet(entity) \cup TokenSet(target)
    \cup UNION {TokenSet(v) : v \in expectedVars} \cup UNION {TokenSet(term) : term \in boost}

Placeholders ==
  {<<"i", "n", "p", "u", "t">>, <<"q", "u", "e", "r", "y">>, <<"s", "e", "a", "r", "c", "h">>,
   <<"p", "i", "p", "e", "l", "i", "n", "e">>, <<"t", "i", "t", "l", "e">>, <<"u", "r", "l">>,
   <<"l", "i", "n", "k">>}

\* isIrrelevantWebQuery(proposedQuery, relevant).irrelevant
isIrrelevantWebQuery(proposedQuery, relevant) ==
  \/ trim(proposedQuery) = <<>>
  \/ toLowerCase(trim(proposedQuery)) \in Placeholders
  \/ Len(tokenize(trim(proposedQuery))) < 2
  \/ \A i \in 1..Len(tokenize(trim(proposedQuery))) :
       tokenize(trim(proposedQuery))[i] \notin relevant

\* the characters of the query texts of the model
Chars(text) ==
  CASE text = "acme ceo" -> <<"a", "c", "m", "e", " ", "c", "e", "o">>
    [] text = "acme founder" -> <<"a", "c", "m", "e", " ", "f", "o", "u", "n", "d", "e", "r">>
    [] text = "query" -> <<"q", "u", "e", "r", "y">>
    [] text = "acme" -> <<"a", "c", "m", "e">>
    [] text = "top story" -> <<"t", "o", "p", " ", "s", "t", "o", "r", "y">>
    [] OTHER -> <<>>

\* the query field of the request
UserQuery == <<"w", "h", "o", " ", "i", "s", " ", "t", "h", "e", " ", "c", "e", "o", " ",
               "o", "f", " ", "A", "c", "m", "e", "?">>

\* relevantTokens of a run: no intent target, no boost hints
RelevantTokens(f) ==
  buildRelevantTokens(UserQuery, {<<"c", "e", "o", "_", "n", "a", "m", "e">>}, {}, f.entity, <<>>)

----------------------------------------------------------------------------
(* Trusted facts: setTrustedFact, with the confidence as the double it is *)

\* a JavaScript number in [0, 1]: 1.0, or 0.b1b2... given by its binary digits
\* up to the last 1
One == [null |-> FALSE, one |-> TRUE, bits |-> <<>>]
Frac(bits) == [null |-> FALSE, one |-> FALSE, bits |-> bits]

\* NULL in the confidence column
NoConfidence == [null |-> TRUE, one |-> FALSE, bits |-> <<>>]

FractionBits == 52    \* binary digits after the point of a double in [1, 2)

RECURSIVE StripZeros(_)
StripZeros(bits) ==
  IF bits # <<>> /\ bits[Len(bits)] = 0 THEN StripZeros(SubSeq(bits, 1, Len(bits) - 1))
  ELSE bits

\* one unit in the last place added to digits that are not all 1
RECURSIVE Increment(_)
Increment(bits) ==
  IF bits[Len(bits)] = 0 THEN [bits EXCEPT ![Len(bits)] = 1]
  ELSE Append(Increment(SubSeq(bits, 1, Len(bits) - 1)), 0)

AllOnes(bits) == \A i \in 1..Len(bits) : bits[i] = 1

Padded(bits, n) == [i \in 1..n |-> IF i <= Len(bits) THEN bits[i] ELSE 0]

\* round to nearest, ties to even: is 1.b1b2... rounded up at digit FractionBits
RoundsUp(bits) ==
  /\ Len(bits) > FractionBits
  /\ bits[FractionBits + 1] = 1
  /\ \/ \E i \in (FractionBits + 2)..Len(bits) : bits[i] = 1
     \/ bits[FractionBits] = 1

\* c + 1.0 for c = 0.b1b2...: the digits after the point of the sum, or 2.0
PlusOne(bits) ==
  IF ~RoundsUp(bits) THEN [two |-> FALSE, bits |-> Padded(bits, FractionBits)]
  ELSE IF AllOnes(SubSeq(bits, 1, FractionBits)) THEN [two |-> TRUE, bits |-> <<>>]
  ELSE [two |-> FALSE, bits |-> Increment(SubSeq(bits, 1, FractionBits))]

\* s / 2 for the sum s in [1, 2]: exact
Halved(s) == IF s.two THEN One ELSE Frac(StripZeros(<<1>> \o s.bits))

\* variant: a missing confidence counts as 0
originalConfidence_zero(existingFact) ==
  IF existingFact = {} THEN Frac(<<>>)
  ELSE IF (CHOOSE r \in existingFact : TRUE).confidence.null THEN Frac(<<>>)
  ELSE (CHOOSE r \in existingFact : TRUE).confidence

\* line 136: existingFact?.confidence ?? 0.5
originalConfidence(existingFact) ==
  IF existingFact = {} THEN Frac(<<1>>)
  ELSE IF (CHOOSE r \in existingFact : TRUE).confidence.null THEN Frac(<<1>>)
  ELSE (CHOOSE r \in existingFact : TRUE).confidence

\* line 137: (originalConfidence + 1.0) / 2 in double arithmetic
newConfidence(c) == IF c.one THEN One ELSE Halved(PlusOne(c.bits))

CorrectionValue == "Ada"
CorrectionSource == "https://acme.example/about"

\* lines 139-153: the variable handed to storeFact
TrustedVariable(existing, field, c) ==
  Variable(Subject(existing.canonical_name, existing.type, existing.id), field, "string",
           CorrectionValue, newConfidence(c), << [url |-> CorrectionSource] >>)

TablesNow ==
  [entities |-> entities, facts |-> facts, nextId |-> nextId, everCurrent |-> everCurrent,
   persisted |-> <<>>, failed |-> FALSE]

\* variant: an unknown entity is created and the fact stored under it
UnknownEntity_created(name, field, db, now) ==
  storeFact(Variable(Subject(name, Company, <<>>), field, "string", CorrectionValue,
                     newConfidence(Frac(<<1>>)), <<>>), db, now)

\* lines 131-133: the throw for an entity that does not exist
UnknownEntity(name, field, db, now) == [db EXCEPT !.failed = TRUE]

\* setTrustedFact({entity, field, value, source}) with no other request in
\* flight: the tables afterwards and whether the call threw
setTrustedFact(name, field, db, now) ==
  IF tryResolveExistingEntity(db.entities, name) = {} THEN UnknownEntity(name, field, db, now)
  ELSE LET existing == CHOOSE e \in tryResolveExistingEntity(db.entities, name) : TRUE
       IN storeFact(TrustedVariable(existing, field,
                                    originalConfidence(getFact(db.facts, existing.id, field))),
                    db, now)

\* what the properties need to know about the call
CorrectionRecord(name, field, out) ==
  [entity |-> name, field |-> field, threw |-> out.failed,
   status |-> IF out.failed THEN 500 ELSE 200,
   hadFact |-> getFact(facts, AcmeId, field) # {},
   before |-> IF getFact(facts, AcmeId, field) = {} THEN NoConfidence
              ELSE (CHOOSE r \in getFact(facts, AcmeId, field) : TRUE).confidence,
   after |-> IF out.persisted = <<>> THEN NoConfidence
             ELSE out.persisted[1].variable.confidence,
   written |-> IF out.failed THEN trusted.written ELSE trusted.written + 1]

MaxCorrections == 54   \* setTrustedFact calls that write

CorrectionEntities == {Acme.name, <<"a", "c", "m", "e">>, <<"Z", "e", "d">>}

\* POST /api/enrich with one correction: routes/enrich.ts lines 43-55 call
\* setTrustedFact, and the catch of lines 66-69 answers 500 when it throws
SetTrustedFact(name, field) ==
  /\ trusted.written < MaxCorrections
  /\ LET out == setTrustedFact(name, field, TablesNow, clock)
     IN /\ entities' = out.entities
        /\ facts' = out.facts
        /\ nextId' = out.nextId
        /\ everCurrent' = out.everCurrent
        /\ trusted' = CorrectionRecord(name, field, out)
  /\ UNCHANGED <<clock, calls, lastRead>>

\* 0.8 as a double: 0.1100 1100 ... 1100 1101
Conf08 == Frac([i \in 1..FractionBits |-> IF i = FractionBits \/ i % 4 \in {1, 2} THEN 1 ELSE 0])

\* the tables before the first correction: Acme, and for its ceo_name no fact,
\* a fact without a confidence, or a fact the agent stored with confidence 0.8
TrustedSeeds ==
  {{}} \cup {{[NewRow(1, AcmeId, "ceo_name", "Bo", 1) EXCEPT !.confidence = c]} :
             c \in {NoConfidence, Conf08}}

----------------------------------------------------------------------------
(* Entity resolver: resolveEntity as one call *)

\* resolveEntity(name, type) against the table `rows`: the id returned, the
\* table afterwards and the query that settled it; the second query has no
\* ORDER BY, so any matching row may be rows[0]
ResolveResults(rows, name, type) ==
  LET nn == normalizedName(name)
      nt == normalizedType(type)
      cid == candidateId(name, type)
  IN IF EntityById(rows, cid) # {}
     THEN {[id |-> cid, rows |-> rows, path |-> "byId"]}
     ELSE IF EntityByName(rows, nn, nt) # {}
          THEN {[id |-> e.id, rows |-> rows, path |-> "byName"] : e \in EntityByName(rows, nn, nt)}
          ELSE {[id |-> cid, rows |-> InsertEntity(rows, cid, nt, nn), path |-> "create"]}

ResolveNames ==
  {Acme.name, <<" ", "a", "c", "m", "e">>, Bob.name, <<"B", "o", "b", "!">>,
   <<"b", "o", "b">>}

ResolveTypes == {Company, Person, <<"C", "o", "m", "p", "a", "n", "y", " ">>}

\* resolveEntity(name, type) is called and returns
ResolveCall(name, type) ==
  \E out \in ResolveResults(entities, name, type) :
    /\ entities' = out.rows
    /\ resolutions' = SliceLast(Append(resolutions,
                                       [name |-> name, type |-> type, id |-> out.id,
                                        path |-> out.path, rows |-> out.rows]), 2)

\* resolveEntity(name, type) is called by request p
ResolveEntityCalled(p) ==
  /\ calls[p].pc = "idle"
  /\ \E n \in ResolveNames, t \in ResolveTypes :
       calls' = [calls EXCEPT ![p] =
                   [IdleCall EXCEPT !.pc = "byId", !.subject = [name |-> n, type |-> t]]]
  /\ UNCHANGED <<entities, facts, nextId, clock, lastRead, everCurrent>>

\* resolveEntity returns the id to request p
ResolveEntityReturns(p) ==
  /\ calls[p].pc = "update"
  /\ calls' = [calls EXCEPT ![p] = IdleCall]
  /\ UNCHANGED <<entities, facts, nextId, clock, lastRead, everCurrent>>

Init ==
  /\ cfg \in Cfgs
  /\ AgentIdle
  /\ DbSeeded
  /\ MemoryIdle

Next ==
  \/ StartRun
  \/ ReasonerAnswers
  \/ ReasonerCallsTools
  \/ ToolCallStep
  \/ KnowledgeQueryAnswers
  \/ KnowledgeQueryStartsRun
  \/ EndBatch
  \/ ForcedFinal
  \/ FinishRequest
  \/ FinishNested

Spec == Init /\ [][Next]_vars

\* the fact store on its own: no agent run, concurrent storeFact calls
DbInit ==
  /\ cfg = [fam |-> "tools", envSteps |-> NaN, envWeb |-> NaN, window |-> DefaultWindow,
            policy |-> HeuristicPolicy, forbidden |-> {}]
  /\ AgentIdle
  /\ DbSeeded
  /\ MemoryIdle

SpecFacts == DbInit /\ [][DbNext]_vars

\* the user memory on its own: addMemory calls of two callers
MemoryInit ==
  /\ cfg = [fam |-> "tools", envSteps |-> NaN, envWeb |-> NaN, window |-> DefaultWindow,
            policy |-> HeuristicPolicy, forbidden |-> {}]
  /\ AgentIdle
  /\ DbSeeded
  /\ user_memory \in {{}, {SeedMemory}}
  /\ memoryCalls = [c \in MemoryCallers |-> IdleMemoryCall]
  /\ resolutions = <<>>
  /\ trusted = NoCorrection
  /\ finder = IdleFinder
  /\ classified = NoIntent

MemoryNext ==
  /\ \/ \E c \in MemoryCallers : AddMemoryCalled(c)
     \/ \E c \in MemoryCallers : AddMemoryExecutes(c)
     \/ MemoryTick
  /\ UNCHANGED agentVars
  /\ UNCHANGED <<entities, facts, nextId, calls, lastRead, everCurrent, resolutions, trusted, finder, classified>>

SpecMemory == MemoryInit /\ [][MemoryNext]_vars

\* the entity resolver on its own: one caller, one resolveEntity after another
ResolveNext ==
  /\ \E n \in ResolveNames, t \in ResolveTypes : ResolveCall(n, t)
  /\ UNCHANGED agentVars
  /\ UNCHANGED <<facts, nextId, clock, calls, lastRead, everCurrent, user_memory, memoryCalls,
                 trusted, finder, classified>>

SpecResolve == DbInit /\ [][ResolveNext]_vars

\* the entity resolver under concurrency: two requests inside resolveEntity,
\* their queries interleaved on the pool
ResolversNext ==
  /\ \/ \E p \in Procs : ResolveEntityCalled(p)
     \/ \E p \in Procs : ResolveById(p)
     \/ \E p \in Procs : ResolveByName(p)
     \/ \E p \in Procs : CreateEntity(p)
     \/ \E p \in Procs : ResolveEntityReturns(p)
  /\ UNCHANGED agentVars
  /\ UNCHANGED sideVars

SpecResolvers == DbInit /\ [][ResolversNext]_vars

\* the trusted facts on their own: one correction after another
TrustedInit ==
  /\ cfg = [fam |-> "tools", envSteps |-> NaN, envWeb |-> NaN, window |-> DefaultWindow,
            policy |-> HeuristicPolicy, forbidden |-> {}]
  /\ AgentIdle
  /\ MemoryIdle
  /\ entities = SeedEntities
  /\ facts \in TrustedSeeds
  /\ nextId = 2
  /\ clock = 1
  /\ calls = [p \in Procs |-> IdleCall]
  /\ lastRead = [entity_id |-> <<>>, name |-> "", found |-> FALSE, hadCurrent |-> FALSE]
  /\ everCurrent = {<<r.entity_id, r.name>> : r \in facts}

TrustedNext ==
  /\ \E name \in CorrectionEntities : SetTrustedFact(name, "ceo_name")
  /\ UNCHANGED agentVars
  /\ UNCHANGED <<user_memory, memoryCalls, resolutions, finder, classified>>

SpecTrusted == TrustedInit /\ [][TrustedNext]_vars

----------------------------------------------------------------------------
(* latest_finder: the search loop of LatestFinderTool._call *)

maxLoops == 5
minSources == 2

\* the publication days of the model are 1..MaxDay; NoDate is a page without
\* a date (published_at undefined)
MaxDay == 5

\* new URL(url).hostname.toLowerCase()
hostname(url) ==
  CASE url = Sec -> "www.sec.gov"
    [] url = Wiki -> "en.wikipedia.org"
    [] url = Blog -> "acme.blogspot.com"
    [] OTHER -> ""

FinderUrls == {Sec, Wiki}

Fetched == [url : FinderUrls, published_at : {NoDate} \cup 1..MaxDay]

\* what one round of searches and fetches settles into: the fulfilled fetches
\* of the distinct urls found (seenThisRound), here at most two of them; a
\* rejected fetch is skipped by the loop and so is not among them
RoundResults ==
  {{}} \cup {S \in {{a, b} : a \in Fetched, b \in Fetched} : \A x \in S, y \in S : x.url = y.url => x = y}

Abs(n) == IF n < 0 THEN -n ELSE n

\* withinHours(a, b, hours), dates counted in days
withinHours(a, b, hours) == a # NoDate /\ b # NoDate /\ 24 * Abs(a - b) <= hours

\* the dates `new Date(src.published_at)` gives for the dated sources
Dates(sources) == {s.published_at : s \in sources} \ {NoDate}

Newest(dates) == CHOOSE d \in dates : \A e \in dates : e <= d

\* variant: a source as new as the current best counts as newer
foundNewer_orEqual(settled, currentLatest) ==
  \E d \in Dates(settled) : currentLatest = NoDate \/ d >= currentLatest

\* lines 306-317: some source of the round is dated after the best date the
\* round started with
foundNewer(settled, currentLatest) ==
  \E d \in Dates(settled) : currentLatest = NoDate \/ d > currentLatest

\* lines 313-316: currentLatest after the sources of the round were gone through
LatestAfter(settled, currentLatest) ==
  IF foundNewer(settled, currentLatest) THEN Newest(Dates(settled)) ELSE currentLatest

\* line 310: allSeen.set(src.url, src) for every source of the round
SeenAfter(allSeen, settled) ==
  {v \in allSeen : \A s \in settled : s.url # v.url} \cup settled

\* lines 331-345: the domains of the credible sources within 48 hours of the
\* latest date
corroborating(allSeen, latestTarget) ==
  {hostname(v.url) : v \in {w \in allSeen : /\ withinHours(w.published_at, latestTarget, 48)
                                            /\ getAuthorityScore(w.url) >= 65}}

\* lines 347-365: enough corroboration keeps the queries; otherwise eleven
\* variants are appended and the list is cut to six
RefinedAfter(refinedQueries, allSeen, latestTarget) ==
  IF Cardinality(corroborating(allSeen, latestTarget)) >= minSources THEN refinedQueries ELSE 6

\* lines 369-393: the sources within 72 hours of the latest date, one for
\* every domain (the urls of the model have a domain each)
Selection(allSeen, latest) ==
  IF latest = NoDate THEN {} ELSE {s \in allSeen : withinHours(s.published_at, latest, 72)}

\* lines 395-397 and 406: corroboration.ok, from the domains of the selection
corroborationOk(results, latest) ==
  Cardinality({hostname(r.url) : r \in results}) >= minSources /\ latest # NoDate

\* latestFinderTool is invoked with a query: lines 261-265, the LLM (or the
\* fallback) gives one to three refined queries
LatestFinderCalled(n) ==
  /\ finder.pc \in {"idle", "done", "error"}
  /\ finder' = [IdleFinder EXCEPT !.pc = "loop", !.refinedQueries = n]

\* lines 252-259: a blank query or no TAVILY_API_KEY is answered with an error
LatestFinderRefuses ==
  /\ finder.pc \in {"idle", "done", "error"}
  /\ finder' = [IdleFinder EXCEPT !.pc = "error"]

\* lines 267-366: one pass of the while loop
SearchRound(settled) ==
  /\ finder.pc = "loop"
  /\ finder.iterations < maxLoops
  /\ finder' =
       [finder EXCEPT
          !.iterations = @ + 1,
          !.currentLatest = LatestAfter(settled, @),
          !.allSeen = SeenAfter(@, settled),
          !.rounds = Append(@, [before |-> finder.currentLatest, dates |-> Dates(settled)]),
          !.pc = IF foundNewer(settled, finder.currentLatest) THEN "loop" ELSE "break",
          !.refinedQueries =
             IF foundNewer(settled, finder.currentLatest)
             THEN RefinedAfter(@, SeenAfter(finder.allSeen, settled),
                               LatestAfter(settled, finder.currentLatest))
             ELSE @]

\* lines 368-409: the loop is left, by the break or by its condition, and the
\* answer is built
LatestFinderReturns ==
  /\ \/ finder.pc = "break"
     \/ finder.pc = "loop" /\ finder.iterations >= maxLoops
  /\ finder' = [finder EXCEPT
                  !.pc = "done",
                  !.latest_date = finder.currentLatest,
                  !.sources = Selection(finder.allSeen, finder.currentLatest),
                  !.corroboration_ok =
                     corroborationOk(Selection(finder.allSeen, finder.currentLatest),
                                     finder.currentLatest),
                  !.total_collected = Cardinality(finder.allSeen)]

\* latest_finder on its own: one invocation after another
LatestInit ==
  /\ cfg = [fam |-> "tools", envSteps |-> NaN, envWeb |-> NaN, window |-> DefaultWindow,
            policy |-> HeuristicPolicy, forbidden |-> {}]
  /\ AgentIdle
  /\ DbSeeded
  /\ MemoryIdle

LatestNext ==
  /\ \/ \E n \in 1..3 : LatestFinderCalled(n)
     \/ LatestFinderRefuses
     \/ \E settled \in RoundResults : SearchRound(settled)
     \/ LatestFinderReturns
  /\ UNCHANGED agentVars
  /\ UNCHANGED dbVars
  /\ UNCHANGED <<user_memory, memoryCalls, resolutions, trusted, classified>>

SpecLatest == LatestInit /\ [][LatestNext]_vars

----------------------------------------------------------------------------
(* classifyIntent: the reply of the intent model, and the fallback *)

startsWith(s, searchString) ==
  Len(s) >= Len(searchString) /\ SubSeq(s, 1, Len(searchString)) = searchString

endsWith(s, suffix) ==
  Len(s) >= Len(suffix) /\ SubSeq(s, Len(s) - Len(suffix) + 1, Len(s)) = suffix

Intents == {"boolean", "specific", "contextual"}

\* what the intent model may answer: text that is no JSON, the JSON null,
\* an object without intent, with an intent that is none of the three, and
\* the three intents with or without a target
IntentReplies ==
  {"not json", "null", "{}", "{\"intent\":\"other\"}", "{\"intent\":\"boolean\",\"target\":\"profitability\"}",
   "{\"intent\":\"specific\",\"target\":7}", "{\"intent\":\"contextual\"}"}

\* lines 26-32: JSON.parse(raw) throws, or parsed.intent throws (null), or
\* the intent is read; target only when it is a string
ParsedIntent(raw) ==
  CASE raw = "{\"intent\":\"other\"}" -> [ok |-> TRUE, intent |-> "other", target |-> ""]
    [] raw = "{}" -> [ok |-> TRUE, intent |-> Undefined, target |-> ""]
    [] raw = "{\"intent\":\"boolean\",\"target\":\"profitability\"}" ->
         [ok |-> TRUE, intent |-> "boolean", target |-> "profitability"]
    [] raw = "{\"intent\":\"specific\",\"target\":7}" -> [ok |-> TRUE, intent |-> "specific", target |-> ""]
    [] raw = "{\"intent\":\"contextual\"}" -> [ok |-> TRUE, intent |-> "contextual", target |-> ""]
    [] OTHER -> [ok |-> FALSE, intent |-> Undefined, target |-> ""]

\* lines 33-36: the heuristic on the lowercased query
FallbackIntent(query) ==
  IF \/ startsWith(toLowerCase(query), <<"i", "s", " ">>)
     \/ startsWith(toLowerCase(query), <<"a", "r", "e", " ">>)
     \/ endsWith(toLowerCase(query), <<"?">>)
  THEN "boolean"
  ELSE IF \/ startsWith(toLowerCase(query), <<"w", "h", "o", " ">>)
          \/ startsWith(toLowerCase(query), <<"w", "h", "a", "t", " ">>)
          \/ startsWith(toLowerCase(query), <<"w", "h", "e", "n", " ">>)
          \/ startsWith(toLowerCase(query), <<"w", "h", "e", "r", "e", " ">>)
       THEN "specific"
       ELSE "contextual"

\* classifyIntent(llm, query) when the model answered raw
classifyIntent(query, raw) ==
  IF ParsedIntent(raw).ok /\ ParsedIntent(raw).intent \in Intents
  THEN [query |-> query, reply |-> raw, fallback |-> FALSE,
        intent |-> ParsedIntent(raw).intent, target |-> ParsedIntent(raw).target]
  ELSE [query |-> query, reply |-> raw, fallback |-> TRUE,
        intent |-> FallbackIntent(query), target |-> ""]

IntentQueries ==
  {<<"i", "s", " ", "a", "c", "m", "e", " ", "p", "u", "b", "l", "i", "c">>,
   <<"I", "s", " ", "a", "c", "m", "e", " ", "p", "u", "b", "l", "i", "c", "?">>,
   <<"a", "r", "e", " ", "t", "h", "e", "y", " ", "p", "u", "b", "l", "i", "c">>,
   <<"i", "s", "l", "a", "n", "d", " ", "a", "c", "m", "e">>,
   <<"w", "h", "o", " ", "f", "o", "u", "n", "d", "e", "d", " ", "a", "c", "m", "e">>,
   <<"w", "h", "o", " ", "f", "o", "u", "n", "d", "e", "d", " ", "a", "c", "m", "e", "?">>,
   <<"W", "h", "a", "t", " ", "i", "s", " ", "a", "c", "m", "e">>,
   <<"w", "h", "a", "t", " ", "i", "s", " ", "a", "c", "m", "e", "?">>,
   <<"w", "h", "e", "n", " ", "w", "a", "s", " ", "a", "c", "m", "e", " ", "f", "o", "u", "n", "d", "e", "d">>,
   <<"w", "h", "e", "n", " ", "w", "a", "s", " ", "a", "c", "m", "e", " ", "f", "o", "u", "n", "d", "e", "d", "?">>,
   <<"w", "h", "e", "r", "e", " ", "i", "s", " ", "a", "c", "m", "e">>,
   <<"w", "h", "e", "r", "e", " ", "i", "s", " ", "a", "c", "m", "e", "?">>,
   <<"t", "e", "l", "l", " ", "m", "e", " ", "a", "b", "o", "u", "t", " ", "a", "c", "m", "e">>,
   <<"t", "e", "l", "l", " ", "m", "e", " ", "a", "b", "o", "u", "t", " ", "a", "c", "m", "e", "?">>,
   <<"w", "h", "o", "s", "e", " ", "a", "c", "m", "e">>,
   <<"a", "c", "m", "e">>,
   <<"?">>}

\* classifyIntent is called and returns
ClassifyIntent(query, raw) ==
  /\ classified' = classifyIntent(query, raw)

IntentNext ==
  /\ \E query \in IntentQueries, raw \in IntentReplies : ClassifyIntent(query, raw)
  /\ UNCHANGED agentVars
  /\ UNCHANGED dbVars
  /\ UNCHANGED <<user_memory, memoryCalls, resolutions, trusted, finder>>

SpecIntent == LatestInit /\ [][IntentNext]_vars

----------------------------------------------------------------------------
(* Claims about the fact store, checked under SpecFacts *)

SamePair(r1, r2) == r1.entity_id = r2.entity_id /\ r1.name = r2.name

\* C1: in every reachable state, under any interleaving of the steps of
\* concurrent store_fact calls, each (entity_id, name) has at most one fact
\* row whose valid_to is null.
C1_OneCurrentRow ==
  \A r1, r2 \in facts :
    (SamePair(r1, r2) /\ r1.valid_to = Null /\ r2.valid_to = Null) => r1 = r2

\* two calls for one pair overlapped; one inserted, the other hit the index
C1_Witness ==
  \E p, q \in Procs :
    /\ p # q
    /\ calls[p].pc = "done" /\ calls[q].pc = "failed"
    /\ calls[p].entityId = calls[q].entityId /\ calls[p].fname = calls[q].fname
    /\ calls[q].value # Undefined
    /\ ~calls[p].solo

\* C2, first half: once a pair has had a current row, no get_fact observes
\* the pair with no current row.
C2_NoGapObserved == lastRead.hadCurrent => lastRead.found

\* C2, second half: a store_fact whose insert step fails (no other writer
\* involved) leaves the row that was current before it still current.
C2_FailedInsertKeepsCurrent ==
  \A p \in Procs :
    (calls[p].pc = "failed" /\ calls[p].solo) =>
      \A r \in facts : r.id \in calls[p].prev => r.valid_to = Null

\* C2: store_fact's close step and insert step take effect as one atomic
\* unit (both halves above).
C2_CloseInsertAtomic == C2_NoGapObserved /\ C2_FailedInsertKeepsCurrent

\* C3: after store_fact(v, t) completes with no other writer for the pair in
\* between, get_fact returns a row with value = v.value, observed_at =
\* valid_from = t and valid_to = null, and the row that was current before
\* the call has valid_to = t; t is observedAt when supplied and a reading of
\* the wall clock otherwise.
C3_StoreThenGet ==
  \A p \in Procs :
    LET c == calls[p] IN
    (c.pc = "done" /\ c.solo) =>
      /\ IF c.observedAt # NoDate THEN c.now = c.observedAt ELSE c.now \in 1..clock
      /\ getFact(facts, c.entityId, c.fname) # {}
      /\ \A r \in getFact(facts, c.entityId, c.fname) :
           /\ r.value = c.value
           /\ r.observed_at = c.now /\ r.valid_from = c.now
           /\ r.valid_to = Null
      /\ \A r \in facts : r.id \in c.prev => r.valid_to = c.now

\* a completed, undisturbed call with a supplied observedAt that superseded a row
C3_Witness ==
  \E p \in Procs :
    /\ calls[p].pc = "done" /\ calls[p].solo
    /\ calls[p].prev # {}
    /\ calls[p].observedAt # NoDate /\ calls[p].observedAt # clock

ClosingCall(p, r) ==
  /\ calls[p].pc = "update" /\ calls'[p].pc = "insert"
  /\ calls[p].entityId = r.entity_id /\ calls[p].fname = r.name

C4_Step ==
  \A r \in facts :
    \E r2 \in facts' :
      /\ r2.id = r.id
      /\ \/ r2 = r
         \/ /\ r.valid_to = Null
            /\ \E p \in Procs :
                 ClosingCall(p, r) /\ r2 = [r EXCEPT !.valid_to = calls[p].now]

\* C4: store_fact never deletes a fact row and never changes a row whose
\* valid_to is non-null; the only change to an existing row is setting
\* valid_to on the current row of the call's own (entity_id, name).
C4_HistoryNeverRewritten == [][C4_Step]_vars

\* a call has just closed a current row while a superseded row of the same
\* pair and a row of another pair exist
C4_Witness ==
  \E p \in Procs :
    /\ calls[p].pc = "insert" /\ calls[p].prev # {}
    /\ \E r \in facts : r.entity_id = calls[p].entityId /\ r.name = calls[p].fname
                        /\ r.valid_to # Null /\ r.id \notin calls[p].prev
                        /\ r.valid_to # calls[p].now
    /\ \E r \in facts : r.entity_id # calls[p].entityId /\ r.valid_to = Null

----------------------------------------------------------------------------
(* Claims about the agent loop, checked under Spec *)

\* C5 as stated: a tool call whose fingerprint was already registered in the
\* run is not executed, and its payload equals the payload of the first call,
\* whether that call returned a result, returned an error payload or threw.
C5_DuplicateEqualsFirst ==
  lastCall.dup => (~lastCall.invoked /\ lastCall.payload = lastCall.firstPayload)

\* C5: a tool call whose fingerprint was already registered in the run is
\* not executed; its payload equals the payload of the first call when that
\* call returned a non-empty text (a result or an error payload), and is the
\* "Duplicate tool call blocked" error when the first call threw or returned
\* the empty text.
C5_DuplicateServed ==
  lastCall.dup =>
    /\ ~lastCall.invoked
    /\ IF lastCall.firstKind = "returned" /\ lastCall.firstPayload # ""
       THEN lastCall.payload = lastCall.firstPayload
       ELSE lastCall.payload = DuplicateBlocked

C5_Witness ==
  /\ lastCall.dup
  /\ lastCall.firstKind = "returned"
  /\ lastCall.payload = "[{url:a}]"

AllRuns == {frames[k] : k \in 1..Len(frames)}

\* C6 as stated: in a run, for every call up to the order of its keys, the
\* tool is invoked at most once and the search backend is asked at most
\* once; registry and cache of a run start empty.
C6_ToolAndBackendOnce ==
  \A f \in AllRuns :
    /\ \A r \in f.ran : r.invoked <= 1 /\ r.searches <= 1
    /\ f.steps = 0 => (f.toolUseRegistry = {} /\ f.toolResultCache = {})

\* C6: in a run, for every call up to the order of its keys, the tool is
\* invoked at most once, so web_search asks the backend at most once per
\* fingerprint (one invocation of latest_finder may send several searches);
\* registry and cache of a run start empty, also in a nested run.
C6_ToolInvokedOnce ==
  \A f \in AllRuns :
    /\ \A r \in f.ran : r.invoked <= 1 /\ (r.key.name = "web_search" => r.searches <= 1)
    /\ f.steps = 0 => (f.toolUseRegistry = {} /\ f.toolResultCache = {})

C6_Witness ==
  /\ frames # <<>> /\ Top.pc = "tools" /\ Top.i = 3
  /\ Top.toolCalls[1].args # Top.toolCalls[2].args
  /\ CallKey(Top.toolCalls[1].name, Top.toolCalls[1].args)
       = CallKey(Top.toolCalls[2].name, Top.toolCalls[2].args)
  /\ \E r \in Top.ran : r.key.name = "web_search" /\ r.invoked = 1 /\ r.searches = 1
  /\ lastCall.dup

\* C7 as stated: the counted web_search and latest_finder executions never
\* exceed max_web_searches, and once the count has reached it every further
\* web_search or latest_finder call with a new fingerprint gets the
\* "Web search limit reached" error without the tool being invoked.
C7_WebBudget ==
  /\ \A f \in AllRuns : 2 * f.webSearchCount <= f.maxWebSearches2
  /\ (lastCall.name \in {"web_search", "latest_finder"} /\ ~lastCall.dup /\ lastCall.atLimit)
       => (lastCall.payload = LimitReached /\ ~lastCall.invoked)

FinishedRuns == {finished[k] : k \in 1..Len(finished)}

\* C8 as stated: a run makes at most max_steps iterations and at most
\* max_steps + 1 reasoner invocations; the extra invocation happens only when
\* tools were requested at step max_steps, and a run that ends after a tool
\* request takes its final answer from that invocation.
C8_BoundedRun ==
  /\ \A f \in AllRuns \cup FinishedRuns :
       /\ 2 * f.steps <= f.MAX_STEPS2
       /\ 2 * f.invocations <= f.MAX_STEPS2 + 2
       /\ f.invocations > f.steps => (f.askedTools /\ 2 * f.steps = f.MAX_STEPS2)
  /\ \A f \in FinishedRuns : f.askedTools => f.forced

\* C9 as stated: nested runs carry a depth, and a run at the depth limit
\* refuses knowledge_query, so the chain of runAgent calls that serves one
\* request stays below the bound MaxDepth, whatever small limit applies.
C9_DepthBounded == Len(frames) < MaxDepth

NoOrphan(messages) ==
  \A n \in 1..Len(messages) :
    messages[n].type = "tool" =>
      \E j \in 1..(n - 1) : CarriesCall(messages[j], messages[n].tool_call_id)

\* C10: in every session history the runs produce, and so after every
\* trimHistory, each tool message comes after an assistant message that
\* carries a tool call with the same id.
C10_NoOrphanToolMessage == \A sid \in Sessions : NoOrphan(histories[sid])

C10_Witness ==
  \E sid \in Sessions :
    /\ frames = <<>>
    /\ cfg.window >= 1
    /\ Len(histories[sid]) = cfg.window + 1
    /\ histories[sid][1].type = "ai" /\ histories[sid][2].type = "tool"
    /\ CarriesCall(histories[sid][1], histories[sid][2].tool_call_id)

\* C11 as stated: every message a run pushes on its working dialogue behind
\* the prior history (the intro, each assistant message, each tool result,
\* each nudge) is appended to the session history, in the order in which it
\* was produced, each tool result after its assistant message and before any
\* later user or assistant message. Compared between iterations.
C11_DialogueInHistory ==
  \A f \in AllRuns :
    f.pc \in {"loop", "forced", "finish"} => f.appended = f.produced

\* the verdict the gate is said to give
GateHolds(variables, policy) ==
  \A k \in 1..Len(variables) :
    LET v == variables[k]
        n == Len(v.sources)
    IN /\ n >= policy.minCorroboration
       /\ (v.type \in {"date", "number", "string"}
           \/ v.name \in {"founded_date", "Founded_Date"}) => n >= 2
       /\ policy.requireAuthority =>
            \E j \in 1..n : getAuthorityScore(v.sources[j]) >= 70

\* C12: the citation gate returns ok = true exactly when every variable has
\* at least min_corroboration sources, every date/number/string variable (or
\* one whose name contains "found" and "date") has at least 2 sources and,
\* when require_authority is set, every variable has a source that scores
\* >= 70; a date/number/string variable with one source is rejected even
\* when min_corroboration = 1.
C12_GateVerdict ==
  \A f \in AllRuns :
    f.gate.evaluated =>
      /\ f.gate.ok <=> GateHolds(f.gate.variables, cfg.policy)
      /\ (\E k \in 1..Len(f.gate.variables) :
            /\ f.gate.variables[k].type \in {"date", "number", "string"}
            /\ Len(f.gate.variables[k].sources) = 1) => ~f.gate.ok

C12_Witness ==
  \E f \in AllRuns :
    /\ f.gate.evaluated /\ ~f.gate.ok
    /\ cfg.policy.minCorroboration = 1 /\ ~cfg.policy.requireAuthority
    /\ Len(f.gate.variables) = 1
    /\ f.gate.variables[1].type = "string" /\ Len(f.gate.variables[1].sources) = 1

\* the latest iteration of the run was a tool-free JSON answer that failed the gate
GateFailedNow(f) ==
  f.gate.evaluated /\ ~f.gate.ok /\ f.gate.step = f.steps /\ ~f.askedTools /\ ~f.forced

LastMessages(sid, n) == SliceLast(histories[sid], n)

C14_NoForbiddenVariable ==
  \A r \in FinishedRuns :
    /\ \A k \in 1..Len(r.result.variables) : r.result.variables[k].name \notin cfg.forbidden
    /\ \A k \in 1..Len(r.persisted) : r.persisted[k].variable.name \notin cfg.forbidden

\* C15 as stated: for every variable of a returned result that was
\* persisted, subject.canonical_id is the id of an existing entity and the
\* fact was written under that same entity id.
C15_PersistedSubjectExists ==
  \A r \in FinishedRuns :
    \A k \in 1..Len(r.persisted) :
      LET p == r.persisted[k]
      IN /\ EntityById(entities, p.variable.subject.canonical_id) # {}
         /\ p.entity_id = p.variable.subject.canonical_id

\* the trusted facts that may replace a variable: same entity (by the id the
\* subject carries or the one its name resolves to), same name, confidence
\* at least the variable's
TrustedFor(v, trustedFacts) ==
  {t \in trustedFacts :
     /\ v.subject.present
     /\ t.entity_id \in {v.subject.canonical_id,
                         WouldResolve(entities, v.subject.name, v.subject.type)}
     /\ t.name = v.name
     /\ (IF t.confidence = Null THEN 0 ELSE t.confidence) >= v.confidence}

\* C16 as stated: the overlay of trusted facts changes a variable only if its
\* subject is the entity the facts were loaded for, the names are equal and
\* the trusted confidence is at least the researched one; its value and
\* confidence then become the trusted ones and its first source the trusted
\* fact's source; every other variable is left as it was.
C16_OverlayOnlyTrusted ==
  \A r \in FinishedRuns :
    /\ Len(r.computed.variables) = Len(r.finalized)
    /\ \A k \in 1..Len(r.finalized) :
         LET v == r.finalized[k]
             w == r.computed.variables[k]
             ts == TrustedFor(v, r.trustedFacts)
         IN IF ts = {} THEN w = v
            ELSE \E t \in ts :
                   /\ w.value = t.value
                   /\ w.confidence = t.confidence
                   /\ w.sources # <<>>
                   /\ w.sources[1] = (IF t.sources # <<>> THEN t.sources[1] ELSE TrustedUrl)
                   /\ w.subject = v.subject /\ w.name = v.name /\ w.type = v.type

\* C17: when storeFact throws for a variable, the run still completes and
\* returns the result it had computed before the store loop.
C17_StoreFailureKeepsResult ==
  \A r \in FinishedRuns : r.storeFailed => r.returned /\ r.result = r.computed

C17_Witness ==
  \E r \in FinishedRuns :
    /\ r.storeFailed /\ r.returned
    /\ Len(r.result.variables) = 2 /\ r.result.variables[1].value = Undefined
    /\ r.persisted = <<>>

\* C18: when the final content is not JSON the run does not fail, the gate
\* is not evaluated on it and no nudge follows it; the result carries the
\* classified intent, the fallback note and no variable, or only the context
\* variable when the request named an entity.
C18_NonJsonFallback ==
  /\ \A f \in AllRuns :
       f.pc = "finish" /\ ~f.askedTools /\ ~f.forced /\ f.steps > 0 /\ ~f.finalRaw.json =>
         /\ f.gate.step # f.steps
         /\ histories[f.sid] # <<>>
         /\ LastMessages(f.sid, 1)[1].type = "ai"
  /\ \A r \in FinishedRuns :
       ~r.finalRaw.json =>
         /\ r.returned
         /\ r.result.intent = ClassifiedIntent
         /\ r.result.notes = FallbackNote
         /\ IF r.entity = NoEntity THEN r.result.variables = <<>>
            ELSE /\ Len(r.result.variables) = 1
                 /\ r.result.variables[1].name = "context"

C18_Witness ==
  \E r \in FinishedRuns :
    /\ ~r.finalRaw.json /\ ~r.forced /\ r.steps > 0 /\ ~r.askedTools
    /\ r.entity # NoEntity
    /\ r.result.notes = FallbackNote
    /\ Len(r.result.variables) = 1 /\ r.result.variables[1].name = "context"

----------------------------------------------------------------------------
(* Claims about the user memory, checked under SpecMemory *)

\* both callers added the same (username, text), c before d
AddedTwice(c, d) ==
  /\ memoryCalls[c].pc = "done" /\ memoryCalls[d].pc = "done"
  /\ memoryCalls[c].username = memoryCalls[d].username
  /\ memoryCalls[c].text = memoryCalls[d].text
  /\ memoryCalls[c].order < memoryCalls[d].order

\* C19: add_memory(u, t) called twice, one call after the other or both at
\* once, leaves exactly one user_memory row for (u, t); its created_at is
\* that of the call whose statement took effect later, and neither call fails.
C19_AddMemoryTwice ==
  /\ \A c \in MemoryCallers : memoryCalls[c].pc # "failed"
  /\ \A c, d \in MemoryCallers :
       AddedTwice(c, d) =>
         LET rows == MemoryConflict(user_memory, memoryCalls[d].username, memoryCalls[d].text)
         IN /\ Cardinality(rows) = 1
            /\ \A r \in rows : r.created_at = memoryCalls[d].now /\ r.id = memoryCalls[d].id
            /\ memoryCalls[c].id = memoryCalls[d].id

C19_Witness ==
  \E c, d \in MemoryCallers :
    /\ AddedTwice(c, d)
    /\ memoryCalls[c].now < memoryCalls[d].now
    /\ \E r \in user_memory : r.username = memoryCalls[d].username
                              /\ r.text = memoryCalls[d].text
                              /\ r.created_at = memoryCalls[d].now

----------------------------------------------------------------------------
(* Claims about the entity resolver, checked under SpecResolve *)

\* the latest two calls asked for the same entity
ResolvedTwice ==
  /\ Len(resolutions) = 2
  /\ resolutions[1].name = resolutions[2].name
  /\ resolutions[1].type = resolutions[2].type

\* C20: two successive resolveEntity(n, t) calls with no other write in
\* between return the same id; the second creates no entity and changes no row.
C20_ResolveTwice ==
  ResolvedTwice =>
    /\ resolutions[2].id = resolutions[1].id
    /\ resolutions[2].path # "create"
    /\ resolutions[2].rows = resolutions[1].rows

\* the first call created the entity, the second found it
C20_Witness ==
  /\ ResolvedTwice
  /\ resolutions[1].path = "create"
  /\ resolutions[2].path = "byId"
  /\ EntityById(entities, resolutions[2].id) # {}

----------------------------------------------------------------------------
(* Claims about the entity table under concurrent resolvers, checked under
   SpecResolvers *)

\* C21: in every state of the entity table, with resolveEntity calls
\* interleaved query by query, no two entities have the same type and
\* canonical names that are equal ignoring case
C21_OneEntityPerName ==
  \A e1 \in entities, e2 \in entities :
    (e1.type = e2.type /\ toLowerCase(e1.canonical_name) = toLowerCase(e2.canonical_name))
      => e1 = e2

\* two requests are inside resolveEntity at once with names that differ only
\* in case: both ran the two SELECTs and found nothing, the first INSERT has
\* created the entity and returned, the second INSERT is about to be sent
C21_Witness ==
  \E p \in Procs, q \in Procs :
    /\ calls[p].pc = "update"
    /\ calls[q].pc = "create"
    /\ calls[p].subject.name # calls[q].subject.name
    /\ toLowerCase(calls[p].subject.name) = toLowerCase(calls[q].subject.name)
    /\ normalizedType(calls[p].subject.type) = normalizedType(calls[q].subject.type)
    /\ \E e \in entities :
         /\ e.id = calls[p].entityId
         /\ e.canonical_name = calls[p].subject.name
         /\ e.id = candidateId(calls[q].subject.name, calls[q].subject.type)

----------------------------------------------------------------------------
(* Claims about the tools and the returned result, checked under Spec *)

\* the call the run is about to execute is a well-formed, first-time
\* knowledge_query whose entity name is no entity's canonical name
UnknownEntityQuery ==
  /\ frames # <<>> /\ Top.pc = "tools" /\ Top.i <= Len(Top.toolCalls)
  /\ CurrentCall(Top).name = "knowledge_query"
  /\ ~IsDuplicate(Top, CurrentCall(Top))
  /\ DynamicToolSchemaOk(CurrentCall(Top).args)
  /\ KqParsed(DynamicToolInput(CurrentCall(Top).args)).entity # <<>>
  /\ \A e \in entities :
       toLowerCase(e.canonical_name)
         # toLowerCase(KqParsed(DynamicToolInput(CurrentCall(Top).args)).entity)

\* what C22 asks of a step
C22_Step ==
  UnknownEntityQuery =>
    /\ lastCall'.name = "knowledge_query"
    /\ lastCall'.invoked
    /\ lastCall'.payload = EntityUnresolved
    /\ entities' = entities
    /\ facts' = facts
    /\ Len(frames') = Len(frames)
    /\ frames'[Len(frames')].pc = "tools"

\* C22: a knowledge_query for a name that matches no entity returns the
\* ENTITY_UNRESOLVED payload with its suggestions, leaves the entity table and
\* the fact table unchanged and starts no nested run
C22_UnknownEntityUnresolved == [][C22_Step]_vars

\* a knowledge_query for "Zed" has just come back unresolved
C22_Witness ==
  /\ lastCall.name = "knowledge_query"
  /\ ~lastCall.dup
  /\ lastCall.invoked
  /\ lastCall.payload = EntityUnresolved
  /\ frames # <<>> /\ Top.i > 1
  /\ Top.toolCalls[Top.i - 1].args = KqNobody.args

----------------------------------------------------------------------------
(* Claims about trusted facts, checked under SpecTrusted *)

\* the name equals no entity's canonical name, ignoring case
UnknownName(name) ==
  \A e \in entities : toLowerCase(e.canonical_name) # toLowerCase(name)

\* what C23 asks of a step
C23_Step ==
  (trusted' # trusted /\ UnknownName(trusted'.entity)) =>
    /\ trusted'.threw
    /\ trusted'.status = 500
    /\ entities' = entities
    /\ facts' = facts
    /\ nextId' = nextId

\* C23: set_trusted_fact for an entity name that matches no existing entity
\* fails with an error and writes nothing: no entity is created and no fact
\* row is inserted or closed
C23_UnknownEntityWritesNothing == [][C23_Step]_vars

\* a correction for "Zed" has been refused after a correction for Acme was
\* stored: the tables hold what the first one wrote
C23_Witness ==
  /\ trusted.entity = <<"Z", "e", "d">>
  /\ trusted.threw
  /\ trusted.written = 1
  /\ Cardinality(entities) = 1
  /\ Cardinality({r \in facts : r.valid_to = Null}) = 1

\* x <= y for digits after the point, neither ending in 0
RECURSIVE LeBits(_, _)
LeBits(a, b) ==
  IF a = <<>> THEN TRUE
  ELSE IF b = <<>> THEN FALSE
  ELSE IF a[1] = b[1] THEN LeBits(Tail(a), Tail(b))
  ELSE a[1] < b[1]

\* x <= y for two numbers of [0, 1]
LeNum(x, y) == y.one \/ (~x.one /\ LeBits(x.bits, y.bits))

SignificandBits == 53   \* binary digits of a double in [0.5, 1)

\* the largest double below 1
BelowOne == Frac([i \in 1..SignificandBits |-> 1])

\* the confidence the call started from
StartedFrom == IF trusted.before.null THEN Frac(<<1>>) ELSE trusted.before

\* the real number (c + 1) / 2 for c = 0.b1b2...: 0.1b1b2...
HalfSumBits(c) == <<1>> \o c.bits

\* d is (c + 1) / 2, or one of the two doubles next to it when (c + 1) / 2
\* has more digits than a double holds
NearHalfSum(d, c) ==
  IF c.one THEN d = One
  ELSE IF Len(HalfSumBits(c)) <= SignificandBits THEN d = Frac(HalfSumBits(c))
  ELSE \/ d = Frac(StripZeros(SubSeq(HalfSumBits(c), 1, SignificandBits)))
       \/ /\ AllOnes(SubSeq(HalfSumBits(c), 1, SignificandBits))
          /\ d = One
       \/ /\ ~AllOnes(SubSeq(HalfSumBits(c), 1, SignificandBits))
          /\ d = Frac(StripZeros(Increment(SubSeq(HalfSumBits(c), 1, SignificandBits))))

\* a correction has just been stored
Corrected == trusted.written > 0 /\ ~trusted.threw

\* the corrections began with no current fact, or with one without confidence
StartedBare == \A r \in facts : r.id = 1 => r.confidence.null

\* C24 as stated: every set_trusted_fact writes the confidence (c + 1) / 2,
\* c the confidence that was current or 0.5; over a sequence of calls the
\* confidence never decreases, starts at 0.75 and stays below 1
C24_ConfidenceBelowOne ==
  Corrected =>
    /\ NearHalfSum(trusted.after, StartedFrom)
    /\ LeNum(StartedFrom, trusted.after)
    /\ (trusted.before.null => trusted.after = Frac(<<1, 1>>))
    /\ trusted.after # One

\* C24, amended: every set_trusted_fact writes the double nearest to
\* (c + 1) / 2; the confidence never decreases, is 0.75 after a first call
\* without a previous confidence, and reaches exactly 1.0 when c is the
\* largest double below 1, which is the 53rd call of a sequence that began
\* without a confidence; until then it stays below 1
C24_ConfidenceReachesOne ==
  Corrected =>
    /\ NearHalfSum(trusted.after, StartedFrom)
    /\ LeNum(StartedFrom, trusted.after)
    /\ (trusted.before.null => trusted.after = Frac(<<1, 1>>))
    /\ (trusted.after = One <=> StartedFrom \in {BelowOne, One})
    /\ (StartedBare => (trusted.after = One <=> trusted.written >= SignificandBits))

\* the 53rd correction of a fact that began without a confidence has stored
\* the confidence 1.0
C24_Witness ==
  /\ Corrected
  /\ StartedBare
  /\ trusted.written = SignificandBits
  /\ trusted.before = BelowOne
  /\ trusted.after = One
  /\ \E r \in facts : r.valid_to = Null /\ r.confidence = One

\* the call answered last was a first-time web_search with a text query
SearchAnswered ==
  /\ frames # <<>> /\ Top.pc = "tools" /\ Top.i > 1
  /\ lastCall.name = "web_search" /\ ~lastCall.dup
  /\ Top.toolCalls[Top.i - 1].name = "web_search"
  /\ proposed(Top.toolCalls[Top.i - 1].args).len > 0

\* C25: a web_search whose query has fewer than 2 informative tokens, is a
\* placeholder, or shares no token with the vocabulary of the request is
\* refused without reaching the search backend
C25_IrrelevantSearchRefused ==
  (/\ SearchAnswered
   /\ isIrrelevantWebQuery(Chars(proposed(Top.toolCalls[Top.i - 1].args).text),
                           RelevantTokens(Top)))
    => ~lastCall.invoked

\* no url twice in a list of sources
UniqueUrls(sources) ==
  \A i \in 1..Len(sources), j \in 1..Len(sources) : sources[i] = sources[j] => i = j

\* C26: in every result a run returns, every variable, the context variable
\* and the variables changed by the trusted-facts overlay included, has a
\* sources list in which no two sources have the same url
C26_SourcesUniqueByUrl ==
  \A k \in 1..Len(finished) :
    \A n \in 1..Len(finished[k].result.variables) :
      UniqueUrls(finished[k].result.variables[n].sources)

\* the last n messages, in their order
LastOf(messages, n) == [k \in 1..n |-> messages[Len(messages) - n + k]]

\* `after` is what the claim allows trim to leave of `before`
TrimmedTo(before, after, W) ==
  IF Len(before) <= W THEN after = before
  ELSE \/ after = LastOf(before, W)
       \/ /\ W > 0
          /\ LastOf(before, W)[1].type = "tool"
          /\ \E j \in 1..(Len(before) - W) :
               before[j].type = "ai" /\ after = <<before[j]>> \o LastOf(before, W)

\* what C27 asks of the step that ends a run
C27_Step ==
  (frames # <<>> /\ Len(frames') < Len(frames)) =>
    /\ TrimmedTo(histories[Top.sid], histories'[Top.sid], cfg.window)
    /\ Len(histories'[Top.sid]) <= cfg.window + 1

\* C27: trim leaves a history of at most W messages unchanged; otherwise the
\* history after trim is the last W messages of the history before, in their
\* order, preceded by at most one earlier assistant message (only when the
\* first kept message is a tool result), so at most W + 1 messages
C27_TrimKeepsWindow == [][C27_Step]_vars

\* the reasoner has just answered without tool calls while steps remain, the
\* request came without an entity, and the answer has a variable without a
\* subject
SubjectlessCandidate ==
  /\ frames # <<>> /\ Top.pc = "loop" /\ Top.entity = NoEntity
  /\ Len(frames') = Len(frames)
  /\ Len(frames'[Len(frames')].produced) > Len(Top.produced)
  /\ frames'[Len(frames')].steps = Top.steps + 1
  /\ 2 * (Top.steps + 1) < Top.MAX_STEPS2
  /\ frames'[Len(frames')].produced[Len(Top.produced) + 1].type = "ai"
  /\ frames'[Len(frames')].produced[Len(Top.produced) + 1].tool_calls = <<>>
  /\ \E k \in 1..Len(JSONparse(frames'[Len(frames')].produced[Len(Top.produced) + 1].content,
                               Top.expected).variables) :
       ~JSONparse(frames'[Len(frames')].produced[Len(Top.produced) + 1].content,
                  Top.expected).variables[k].subject.present

\* what C29 asks of the step that takes the candidate
C29_Step ==
  SubjectlessCandidate =>
    /\ frames'[Len(frames')].pc = "loop"
    /\ Len(frames'[Len(frames')].produced) = Len(Top.produced) + 2
    /\ frames'[Len(frames')].produced[Len(Top.produced) + 2].type = "human"

\* C29: a tool-free candidate with a variable without a subject, when no
\* default subject can be injected, is not accepted while steps remain: a
\* nudge is appended as a user message and the reasoner is invoked again; the
\* variable is not silently removed
C29_SubjectlessHeldBack == [][C29_Step]_vars

\* the ids of the tool results that follow position p, up to the next
\* assistant message
RECURSIVE ResultIdsFrom(_, _)
ResultIdsFrom(messages, p) ==
  IF p > Len(messages) \/ messages[p].type = "ai" THEN <<>>
  ELSE IF messages[p].type = "tool"
       THEN <<messages[p].tool_call_id>> \o ResultIdsFrom(messages, p + 1)
       ELSE ResultIdsFrom(messages, p + 1)

\* the assistant message at p is the latest one and its batch is under way
BatchUnderWay(f, p) ==
  /\ f.pc \in {"tools", "nested"}
  /\ \A q \in (p + 1)..Len(f.produced) : f.produced[q].type # "ai"

----------------------------------------------------------------------------
(* Claims about latest_finder, checked under SpecLatest *)

\* round k of the call collected a source dated after the best date it
\* started with
NewerIn(k) ==
  \E d \in finder.rounds[k].dates :
    finder.rounds[k].before = NoDate \/ d > finder.rounds[k].before

AllCollected == UNION {finder.rounds[k].dates : k \in 1..Len(finder.rounds)}

\* C30: latest_finder never makes more than 5 iterations; when it has
\* returned, every iteration but the last collected a source dated strictly
\* after the best date so far, the last one did not unless it was the fifth
\* (so the call stopped at the first iteration without a newer source), and
\* latest_date is the newest published date among all the sources collected
\* (null when none was dated)
C30_LatestFinderStops ==
  /\ finder.iterations <= maxLoops
  /\ finder.iterations = Len(finder.rounds)
  /\ finder.pc = "done" =>
       /\ finder.iterations >= 1
       /\ \A k \in 1..(finder.iterations - 1) : NewerIn(k)
       /\ finder.iterations < maxLoops => ~NewerIn(finder.iterations)
       /\ finder.latest_date = IF AllCollected = {} THEN NoDate
                               ELSE CHOOSE d \in AllCollected : \A e \in AllCollected : e <= d

\* the same article, alone, came back in two consecutive iterations and the
\* call returned after the second, with the article's date
C30_Witness ==
  /\ finder.pc = "done"
  /\ finder.iterations = 2
  /\ finder.rounds[1].dates = finder.rounds[2].dates
  /\ \E s \in finder.allSeen : finder.allSeen = {s} /\ finder.rounds[1].dates = {s.published_at}
                               /\ finder.latest_date = s.published_at

\* the domains of authority 65 or more with a source dated within 48 hours
\* of the date reported
CredibleNear ==
  {hostname(v.url) : v \in {w \in finder.allSeen :
                              /\ w.published_at # NoDate
                              /\ 24 * Abs(w.published_at - finder.latest_date) <= 48
                              /\ getAuthorityScore(w.url) >= 65}}

\* C31 as stated: when latest_finder has returned a latest_date with
\* corroboration.ok = true, at least 2 distinct domains with authority score
\* of 65 or more have published dates within 48 hours of that date.
C31_OkMeansCorroborated ==
  (finder.pc = "done" /\ finder.corroboration_ok) => Cardinality(CredibleNear) >= 2

----------------------------------------------------------------------------
(* Claims about classifyIntent, checked under SpecIntent *)

LeadsWith(words) == \E w \in words : startsWith(toLowerCase(classified.query), w)

\* C32 as stated: when the reply of the intent model gives no valid intent,
\* classifyIntent returns boolean for a query that begins with "is " or
\* "are ", specific for one that begins with "who ", "what ", "when " or
\* "where ", with or without a trailing question mark, and contextual
\* otherwise; the intent returned is always one of the three.
C32_FallbackByInterrogative ==
  /\ classified # NoIntent => classified.intent \in Intents
  /\ (classified # NoIntent /\ classified.fallback) =>
       classified.intent =
         IF LeadsWith({<<"i", "s", " ">>, <<"a", "r", "e", " ">>}) THEN "boolean"
         ELSE IF LeadsWith({<<"w", "h", "o", " ">>, <<"w", "h", "a", "t", " ">>,
                            <<"w", "h", "e", "n", " ">>, <<"w", "h", "e", "r", "e", " ">>})
              THEN "specific"
              ELSE "contextual"

----------------------------------------------------------------------------
(* Further claims about the fact store, checked under SpecFacts *)

\* C33 as stated, the part about errors: store_fact calls that run
\* concurrently for the same (entity_id, name) all complete without error
\* under every interleaving of their close and insert steps, so a call fails
\* only when its own value cannot be stored (the NOT NULL column).
C33_ConcurrentWritersComplete ==
  \A p \in Procs :
    calls[p].pc = "failed" => ~NotNullOk(JsonStringify(calls[p].value))

\* the validity intervals [valid_from, valid_to) of two rows are apart
Apart(r1, r2) ==
  \/ r1.valid_to # Null /\ r1.valid_to <= r2.valid_from
  \/ r2.valid_to # Null /\ r2.valid_to <= r1.valid_from

\* C34 as stated: after any sequence of store_fact calls, also with an
\* observed_at earlier than that of the row being closed, every fact row with
\* a non-null valid_to has valid_from <= valid_to, and the validity intervals
\* of the rows of one (entity_id, name) do not overlap.
C34_ValidityIntervals ==
  /\ \A r \in facts : r.valid_to # Null => r.valid_from <= r.valid_to
  /\ \A r1 \in facts, r2 \in facts : (r1 # r2 /\ SamePair(r1, r2)) => Apart(r1, r2)

----------------------------------------------------------------------------
(* Further claims about the agent loop, checked under Spec *)

\* C35 as stated, for a request and the nested run knowledge_query starts
\* for it: the two never read or write the same session history, that is,
\* no run in progress has the session of a run it is nested in.
C35_SessionsApart ==
  \A i \in 1..Len(frames), j \in 1..Len(frames) : i < j => frames[i].sid # frames[j].sid

\* the counted web_search and latest_finder executions of the runs on the
\* stack: the request's run and the nested runs in progress
RECURSIVE SearchesOf(_)
SearchesOf(stack) ==
  IF stack = <<>> THEN 0 ELSE Head(stack).webSearchCount + SearchesOf(Tail(stack))

\* C36 as stated: while one request of research intensity I is served (no
\* RESEARCH_MAX_WEB_SEARCHES override), the web_search and latest_finder
\* executions of its run and of the nested runs knowledge_query starts never
\* exceed, together, the max_web_searches cap of I.
C36_NestedWebBudget ==
  (frames # <<>> /\ cfg.envWeb.nan) => 2 * SearchesOf(frames) <= frames[1].maxWebSearches2

\* the run ended with a candidate the citation gate approved
Approved(r) == r.gate.evaluated /\ r.gate.ok /\ r.gate.step = r.steps /\ ~r.forced

Urls(sources) == {sources[k] : k \in 1..Len(sources)}

\* C37 as stated: every date, number or string variable of a result the
\* citation gate approved has at least 2 sources with distinct urls when the
\* finaliser is done with it: the url de-duplication does not reduce the
\* source count the gate approved.
C37_ApprovedKeepsTwoSources ==
  \A r \in FinishedRuns :
    Approved(r) =>
      \A k \in 1..Len(r.finalized) :
        r.finalized[k].type \in {"date", "number", "string"} =>
          Cardinality(Urls(r.finalized[k].sources)) >= 2

\* the store loop takes the variable: lines 679-681
Storable(v) == v.name # "context" /\ v.subject.present /\ v.subject.canonical_id # <<>>

\* C38 as stated: when store_fact fails for one variable of a result,
\* store_fact is still called for every later variable of the result whose
\* name is not context and that has a canonical_id; so every such variable
\* with a value that can be stored is written.
C38_StoreGoesOn ==
  \A r \in FinishedRuns :
    \A k \in 1..Len(r.computed.variables) :
      (Storable(r.computed.variables[k]) /\ NotNullOk(JsonStringify(r.computed.variables[k].value)))
        => \E j \in 1..Len(r.persisted) : r.persisted[j].variable = r.computed.variables[k]

\* the final answer of the run was JSON
AnsweredJson(r) == r.finalRaw.json

\* C39 as stated: a final answer that is valid JSON but malformed (a
\* variable whose subject has no name or no type, or an answer that does not
\* fit the EnrichmentResult shape) never makes the run fail: the run returns
\* an EnrichmentResult, at worst without the offending variables.
C39_MalformedAnswerReturns ==
  \A r \in FinishedRuns : AnsweredJson(r) => r.returned

----------------------------------------------------------------------------
(* A further claim about the entity resolver, checked under SpecResolve *)

\* the same type after trimming and lowercasing, and the same name ignoring
\* case and surrounding whitespace
SameSubject(n1, t1, n2, t2) ==
  /\ toLowerCase(trim(t1)) = toLowerCase(trim(t2))
  /\ toLowerCase(trim(n1)) = toLowerCase(trim(n2))

\* C40 as stated: two resolveEntity calls return the same id only if their
\* types are the same after trimming and lowercasing and their names are the
\* same ignoring case and surrounding whitespace; so the entity a call
\* returns has the type and the name that were asked for.
C40_IdsUniquePerSubject ==
  /\ Len(resolutions) = 2 =>
       (resolutions[1].id = resolutions[2].id =>
          SameSubject(resolutions[1].name, resolutions[1].type,
                      resolutions[2].name, resolutions[2].type))
  /\ \A k \in 1..Len(resolutions) :
       \A e \in EntityById(resolutions[k].rows, resolutions[k].id) :
         SameSubject(e.canonical_name, e.type, resolutions[k].name, resolutions[k].type)

====
